---- MODULE Spec2Model ----
(***************************************************************************)
(* Model of the AI knowledge-base loader (src/loaders/loadAIKB.py):        *)
(* URL reconciliation (load, validate, deduplicate, size budget), the      *)
(* create-or-update decision for the remote data source, and the           *)
(* ingestion-job poll loop.                                                *)
(*                                                                         *)
(* Strings are sequences of one-character strings, so that len(), strip(), *)
(* urlparse() and sorting are computed the way the code computes them.     *)
(***************************************************************************)
EXTENDS Integers, Sequences, FiniteSets, TLC

\* ------------------------------------------------------------------------
\* Characters and strings
\* ------------------------------------------------------------------------

\* str.strip() with no argument removes leading and trailing whitespace.
Whitespace == {" ", "\t", "\n", "\r"}

\* urllib.parse._UNSAFE_URL_BYTES_TO_REMOVE, removed by urlsplit.
UnsafeUrlBytes == {"\t", "\r", "\n"}

UpperLetters == {"A", "B", "C", "D", "E", "F", "G", "H", "I", "J", "K", "L", "M",
                 "N", "O", "P", "Q", "R", "S", "T", "U", "V", "W", "X", "Y", "Z"}

LowerLetters == {"a", "b", "c", "d", "e", "f", "g", "h", "i", "j", "k", "l", "m",
                 "n", "o", "p", "q", "r", "s", "t", "u", "v", "w", "x", "y", "z"}

Digits == {"0", "1", "2", "3", "4", "5", "6", "7", "8", "9"}

\* urllib.parse.scheme_chars
SchemeChars == UpperLetters \cup LowerLetters \cup Digits \cup {"+", "-", "."}

\* The characters in ascending code-point order (str comparison in sort()).
CodeOrder ==
    <<"\t", "\n", "\r", " ", "#", "+", "-", ".", "/",
      "0", "1", "2", "3", "4", "5", "6", "7", "8", "9", ":", "?",
      "A", "B", "C", "D", "E", "F", "G", "H", "I", "J", "K", "L", "M",
      "N", "O", "P", "Q", "R", "S", "T", "U", "V", "W", "X", "Y", "Z",
      "[", "]", "_",
      "a", "b", "c", "d", "e", "f", "g", "h", "i", "j", "k", "l", "m",
      "n", "o", "p", "q", "r", "s", "t", "u", "v", "w", "x", "y", "z">>

\* The rank of each character in that order.
OrdTable ==
    [c \in {CodeOrder[i] : i \in 1..Len(CodeOrder)} |->
        CHOOSE i \in 1..Len(CodeOrder) : CodeOrder[i] = c]

Ord(c) == OrdTable[c]

\* The lower-case letter of each upper-case letter.
LowerTable == [c \in UpperLetters |-> CodeOrder[OrdTable[c] + 29]]

\* str.lower() on one character.
LowerChar(c) == IF c \in UpperLetters THEN LowerTable[c] ELSE c

\* str.upper() on one character.
UpperChar(c) ==
    IF c \in LowerLetters THEN CodeOrder[OrdTable[c] - 29] ELSE c

\* s.upper().replace('-', ' ')
UpperSpaced(s) ==
    [i \in 1..Len(s) |-> IF s[i] = "-" THEN " " ELSE UpperChar(s[i])]

LowerStr(s) == [i \in 1..Len(s) |-> LowerChar(s[i])]

\* s < t for Python strings (lexicographic by code point).
RECURSIVE StrLess(_, _)
StrLess(s, t) ==
    IF t = <<>> THEN FALSE
    ELSE IF s = <<>> THEN TRUE
    ELSE IF s[1] # t[1] THEN Ord(s[1]) < Ord(t[1])
    ELSE StrLess(Tail(s), Tail(t))

\* s[a-1 : b] in Python terms: the characters at positions a..b (1-based).
Slice(s, a, b) == IF a > b THEN <<>> ELSE SubSeq(s, a, b)

StartsWith(s, p) == Len(s) >= Len(p) /\ SubSeq(s, 1, Len(p)) = p

EndsWith(s, p) ==
    Len(s) >= Len(p) /\ SubSeq(s, Len(s) - Len(p) + 1, Len(s)) = p

\* re.search of a literal pattern p in lower case, with re.IGNORECASE: p
\* occurs somewhere in s, whatever the case of the letters of s.
ContainsIgnoreCase(s, p) ==
    \E i \in 1..(Len(s) - Len(p) + 1) :
        \A k \in 1..Len(p) : LowerChar(s[i + k - 1]) = p[k]

\* Position of the first character of s, at or after position from, that is
\* in the set cs; Len(s) + 1 when there is none.
FindFirst(s, cs, from) ==
    IF \E i \in from..Len(s) : s[i] \in cs
    THEN CHOOSE i \in from..Len(s) :
             /\ s[i] \in cs
             /\ \A j \in from..(i - 1) : s[j] \notin cs
    ELSE Len(s) + 1

\* str.strip()
Strip(s) ==
    IF \A i \in 1..Len(s) : s[i] \in Whitespace THEN <<>>
    ELSE LET first == CHOOSE i \in 1..Len(s) :
                          /\ s[i] \notin Whitespace
                          /\ \A j \in 1..(i - 1) : s[j] \in Whitespace
             last  == CHOOSE i \in 1..Len(s) :
                          /\ s[i] \notin Whitespace
                          /\ \A j \in (i + 1)..Len(s) : s[j] \in Whitespace
         IN  SubSeq(s, first, last)

\* A string of n copies of the character c.
Repeat(c, n) == [i \in 1..n |-> c]

\* ------------------------------------------------------------------------
\* urllib.parse.urlparse, as far as scheme and netloc are concerned
\* ------------------------------------------------------------------------

\* The result of urlparse(url): either it raises ValueError("Invalid IPv6
\* URL"), or it yields the scheme and the netloc.
urlparse(url0) ==
    LET url    == SelectSeq(url0, LAMBDA c : c \notin UnsafeUrlBytes)
        colon  == FindFirst(url, {":"}, 1)
        hasSch == /\ colon <= Len(url)
                  /\ colon > 1
                  /\ url[1] \in UpperLetters \cup LowerLetters
                  /\ \A k \in 1..(colon - 1) : url[k] \in SchemeChars
        scheme == IF hasSch THEN LowerStr(SubSeq(url, 1, colon - 1)) ELSE <<>>
        rest   == IF hasSch THEN Slice(url, colon + 1, Len(url)) ELSE url
        hasNet == StartsWith(rest, <<"/", "/">>)
        delim  == FindFirst(rest, {"/", "?", "#"}, 3)
        netloc == IF hasNet THEN Slice(rest, 3, delim - 1) ELSE <<>>
        open   == \E k \in 1..Len(netloc) : netloc[k] = "["
        close  == \E k \in 1..Len(netloc) : netloc[k] = "]"
    IN  [raises |-> hasNet /\ (open # close),
         scheme |-> scheme,
         netloc |-> netloc]

\* ------------------------------------------------------------------------
\* URL reconciliation: validate, deduplicate, size budget
\* ------------------------------------------------------------------------

\* The patterns of suspicious_patterns, as the literal text each one matches.
suspicious_patterns ==
    { <<"l", "o", "c", "a", "l", "h", "o", "s", "t">>,
      <<"1", "2", "7", ".", "0", ".", "0", ".", "1">>,
      <<".", "l", "o", "c", "a", "l">>,
      <<"t", "e", "s", "t", ".">>,
      <<"s", "t", "a", "g", "i", "n", "g", ".">>,
      <<"d", "e", "v", ".">> }

\* re.search(pattern, clean_url, re.IGNORECASE) for some pattern.
SearchPatterns(clean_url) ==
    \E p \in suspicious_patterns : ContainsIgnoreCase(clean_url, p)

\* The short URLs of the explored configurations.
U_A == <<"h", "t", "t", "p", "s", ":", "/", "/", "a", ".", "e", "x", "a", "m", "p", "l", "e", "/", "x">>
U_A_padded == <<" ", "h", "t", "t", "p", "s", ":", "/", "/", "a", ".", "e", "x", "a", "m", "p", "l", "e", "/", "x", " ">>
U_B == <<"h", "t", "t", "p", ":", "/", "/", "d", "e", "v", ".", "b", ".", "l", "o", "c", "a", "l", "/">>
U_C == <<"H", "T", "T", "P", "S", ":", "/", "/", "c", ".", "e", "x", "a", "m", "p", "l", "e">>
U_not_a_url == <<"n", "o", "t", "-", "a", "-", "u", "r", "l">>
U_empty == <<>>
U_blank == <<" ", " ">>
U_mailto == <<"m", "a", "i", "l", "t", "o", ":", "x">>
U_bracket == <<"h", "t", "t", "p", ":", "/", "/", "[", "x">>
U_old == <<"h", "t", "t", "p", "s", ":", "/", "/", "n", ".", "e", "x", "a", "m", "p", "l", "e", "/">>

\* A valid URL of exactly n characters (n >= 18) on host c.example.
LongUrl(c, n) == <<"h", "t", "t", "p", "s", ":", "/", "/">> \o <<c>> \o <<".", "e", "x", "a", "m", "p", "l", "e", "/">> \o Repeat("a", n - 18)

\* The search on those URLs, trimmed, done once and for all.
KnownUrls ==
    {Strip(u) : u \in {U_A, U_A_padded, U_B, U_C, U_not_a_url, U_mailto,
                       U_bracket, U_old}}

SuspiciousKnown == [u \in KnownUrls |-> SearchPatterns(u)]

\* Whether clean_url matches one of the suspicious patterns (lines 155-165).
IsSuspicious(clean_url) ==
    IF clean_url \in KnownUrls
    THEN SuspiciousKnown[clean_url]
    ELSE SearchPatterns(clean_url)

LongUrlThreshold == 200

\* What one iteration of the loop of _validate_and_clean_urls does with url:
\* raised (urlparse raised), kept (appended to valid_urls) and the issues
\* appended to issues_found.
ValidateOne(url) ==
    LET clean_url == Strip(url)
        parsed    == urlparse(clean_url)
    IN  IF clean_url = <<>>
        THEN [raised |-> FALSE, kept |-> <<>>, issues |-> <<"empty">>]
        ELSE IF parsed.raises
        THEN [raised |-> TRUE, kept |-> <<>>, issues |-> <<>>]
        ELSE IF parsed.scheme = <<>> \/ parsed.netloc = <<>>
        THEN [raised |-> FALSE, kept |-> <<>>, issues |-> <<"invalid">>]
        ELSE [raised |-> FALSE,
              kept   |-> <<clean_url>>,
              issues |-> (IF Len(clean_url) > LongUrlThreshold
                          THEN <<"long">> ELSE <<>>)
                         \o (IF IsSuspicious(clean_url)
                             THEN <<"suspicious">> ELSE <<>>)]

\* _validate_and_clean_urls(urls): the loop from the first url to the last,
\* stopping at the first url on which urlparse raises.
RECURSIVE ValidateFrom(_, _, _)
ValidateFrom(urls, valid_urls, issues_found) ==
    IF urls = <<>>
    THEN [raised |-> FALSE, valid_urls |-> valid_urls,
          issues_found |-> issues_found]
    ELSE LET one == ValidateOne(Head(urls))
         IN  IF one.raised
             THEN [raised |-> TRUE, valid_urls |-> valid_urls,
                   issues_found |-> issues_found]
             ELSE ValidateFrom(Tail(urls), valid_urls \o one.kept,
                               issues_found \o one.issues)

validate_and_clean_urls(urls) == ValidateFrom(urls, <<>>, <<>>)

\* _deduplicate_urls(all_urls): keep the first occurrence of each url.
RECURSIVE DedupFrom(_, _, _)
DedupFrom(all_urls, seen, deduplicated) ==
    IF all_urls = <<>> THEN deduplicated
    ELSE IF Head(all_urls) \in seen
         THEN DedupFrom(Tail(all_urls), seen, deduplicated)
         ELSE DedupFrom(Tail(all_urls), seen \cup {Head(all_urls)},
                        Append(deduplicated, Head(all_urls)))

\* Deduplication, had it kept the last occurrence of each url.
RECURSIVE deduplicate_urls_keeping_last(_)
deduplicate_urls_keeping_last(all_urls) ==
    IF all_urls = <<>> THEN <<>>
    ELSE IF \E i \in 2..Len(all_urls) : all_urls[i] = Head(all_urls)
         THEN deduplicate_urls_keeping_last(Tail(all_urls))
         ELSE <<Head(all_urls)>> \o deduplicate_urls_keeping_last(Tail(all_urls))

deduplicate_urls(all_urls) == DedupFrom(all_urls, {}, <<>>)

\* sum(len(url) for url in final_urls)
RECURSIVE total_chars(_)
total_chars(final_urls) ==
    IF final_urls = <<>> THEN 0
    ELSE Len(Head(final_urls)) + total_chars(Tail(final_urls))

CharLimit == 3000

\* The budget test, had it counted the URLs instead of their characters.
ExceedsLimitCountingUrls(final_urls) == Len(final_urls) > CharLimit

\* The budget test of load_catalogue (line 96).
ExceedsLimit(final_urls) == total_chars(final_urls) > CharLimit

\* The budget test of _create_catalogue_data_source, had it refused a
\* list of exactly 3000 characters.
CreateExceedsLimitAtLimit(final_urls) == total_chars(final_urls) >= CharLimit

\* The budget test of _create_catalogue_data_source (line 389).
CreateExceedsLimit(final_urls) == total_chars(final_urls) > CharLimit

\* ------------------------------------------------------------------------
\* The fixtures directory tree (fixtures/ai_kb/<catalogue>)
\* ------------------------------------------------------------------------

BASE == <<"b", "a", "s", "e">>
NIST == <<"n", "i", "s", "t">>

Catalogues == {BASE, NIST}

JsonSuffix == <<".", "j", "s", "o", "n">>
CatalogueInfoName == <<"c", "a", "t", "a", "l", "o", "g", "u", "e", "_", "i", "n", "f", "o", ".", "j", "s", "o", "n">>

\* A directory is [exists, files]; files maps each file name to what
\* json.load gives for it: kind "urls" (a dict whose 'urls' is the list
\* urls), "nourls" (valid JSON without a 'urls' list), "malformed"
\* (json.load raises), "fixture" (a Django fixture: a list of records),
\* "info" (the catalogue_info document, a dict with some of the keys
\* name, description and version).
NoDir == [exists |-> FALSE, files |-> <<>>]

EmptyDir == [exists |-> TRUE, files |-> <<>>]

UrlsFile(urls) == [kind |-> "urls", urls |-> urls]

OtherFile(kind) == [kind |-> kind, urls |-> <<>>]

InfoFile(info) == [kind |-> "info", urls |-> <<>>, info |-> info]

DjangoPrefix == <<"d", "j", "a", "n", "g", "o", "_">>

\* dict.get(key, default)
Get(dict, key, default) ==
    IF key \in DOMAIN dict THEN dict[key] ELSE default

DefaultDescription == <<"C", "a", "t", "a", "l", "o", "g", "u", "e", " ", "l", "o", "a", "d", "e", "d", " ", "f", "r", "o", "m", " ", "A", "I", " ", "K", "n", "o", "w", "l", "e", "d", "g", "e", " ", "B", "a", "s", "e">>
DefaultVersion == <<"1", ".", "0">>

\* The ComplianceFramework record that _update_compliance_framework asks
\* get_or_create for (lines 496-502).
FrameworkRecord(catalogue_info, cat) ==
    [name        |-> Get(catalogue_info, "name", UpperSpaced(cat)),
     description |-> Get(catalogue_info, "description", DefaultDescription),
     version     |-> Get(catalogue_info, "version", DefaultVersion)]

\* The table afterwards, had the call been update_or_create.
GetOrCreateOverwriting(table, record) ==
    {r \in table : r.name # record.name} \cup {record}

\* objects.get_or_create(name=..., defaults=...): the table afterwards.
GetOrCreate(table, record) ==
    IF \E r \in table : r.name = record.name THEN table
    ELSE table \cup {record}

\* sorted(names, reverse=True), had the listing been sorted that way.
RECURSIVE SortedDescending(_)
SortedDescending(names) ==
    IF names = {} THEN <<>>
    ELSE LET greatest == CHOOSE n \in names :
                             \A m \in names \ {n} : StrLess(m, n)
         IN  <<greatest>> \o SortedDescending(names \ {greatest})

\* sorted(names): ascending by str comparison.
RECURSIVE Sorted(_)
Sorted(names) ==
    IF names = {} THEN <<>>
    ELSE LET least == CHOOSE n \in names :
                          \A m \in names \ {n} : StrLess(n, m)
         IN  <<least>> \o Sorted(names \ {least})

\* The loop of _load_catalogue_urls over the sorted json_files.
RECURSIVE ExtendFrom(_, _)
ExtendFrom(files, json_files) ==
    IF json_files = <<>> THEN <<>>
    ELSE LET data == files[Head(json_files)]
         IN  (IF data.kind = "urls" THEN data.urls ELSE <<>>)
             \o ExtendFrom(files, Tail(json_files))

\* _load_catalogue_urls(directory_path)
load_catalogue_urls(dir) ==
    IF ~dir.exists THEN <<>>
    ELSE LET json_files ==
                 Sorted({f \in DOMAIN dir.files :
                            EndsWith(f, JsonSuffix) /\ f # CatalogueInfoName})
         IN  ExtendFrom(dir.files, json_files)

\* The sorted django_fixtures of _load_django_fixtures_from_dir.
DjangoFixtures(dir) ==
    Sorted({f \in DOMAIN dir.files :
               EndsWith(f, JsonSuffix) /\ StartsWith(f, DjangoPrefix)})

\* Whether base URLs go first: the base directory exists and the catalogue
\* is not 'base' (lines 71 and 371).
UsesBase(tree, cat) == tree[BASE].exists /\ cat # BASE

\* all_urls of load_catalogue (lines 70-79): base URLs, then the catalogue's.
AllUrls(tree, cat) ==
    (IF UsesBase(tree, cat) THEN load_catalogue_urls(tree[BASE]) ELSE <<>>)
    \o load_catalogue_urls(tree[cat])

\* all_urls of _create_catalogue_data_source (lines 370-377).
CreateAllUrls(tree, cat) ==
    (IF UsesBase(tree, cat) THEN load_catalogue_urls(tree[BASE]) ELSE <<>>)
    \o load_catalogue_urls(tree[cat])

\* ------------------------------------------------------------------------
\* Data-source names and remote requests
\* ------------------------------------------------------------------------

NamePrefix == <<"f", "i", "x", "t", "u", "r", "e", "s", "-">>
NameSuffix == <<"-", "k", "b", "-", "s", "o", "u", "r", "c", "e">>

\* data_source_name of _get_or_create_catalogue_data_source (line 239).
LookupName(cat) == NamePrefix \o cat \o NameSuffix

\* The creation name, had it been built differently from the lookup name.
CreateNameWithoutSuffix(cat) == NamePrefix \o cat

\* name= of the create_data_source call (line 402).
CreateName(cat) == NamePrefix \o cat \o NameSuffix

\* The first data source of the listing whose name is data_source_name
\* (0 when there is none): the loop of _find_data_source_by_name.
FindByName(summaries, data_source_name) ==
    IF \E i \in 1..Len(summaries) : summaries[i].name = data_source_name
    THEN CHOOSE i \in 1..Len(summaries) :
             /\ summaries[i].name = data_source_name
             /\ \A j \in 1..(i - 1) : summaries[j].name # data_source_name
    ELSE 0

\* The update request, had the new URLs been added to the current ones.
UpdateRequestMerging(current, id, urls) ==
    [dataSourceId |-> id,
     name         |-> current.name,
     descUpdates  |-> current.descUpdates + 1,
     type         |-> current.type,
     seedUrls     |-> current.seedUrls \o urls,
     vectorIngestionConfiguration |-> FALSE]

\* The keyword arguments of the first update_data_source call (lines
\* 334-340): the description is the current one with one more
\* " - Updated ... URLs" suffix, the configuration is the current one with
\* the seed URLs replaced; no vectorIngestionConfiguration is passed.
UpdateRequest(current, id, urls) ==
    [dataSourceId |-> id,
     name         |-> current.name,
     descUpdates  |-> current.descUpdates + 1,
     type         |-> current.type,
     seedUrls     |-> urls,
     vectorIngestionConfiguration |-> FALSE]

\* The keyword arguments of the second update_data_source call (lines
\* 347-353), given those of the first.
RetryRequest(request) == request

\* The remote data source after the service has accepted request.
Updated(ds, request) ==
    [ds EXCEPT !.name = request.name,
               !.descUpdates = request.descUpdates,
               !.seedUrls = request.seedUrls]

\* ------------------------------------------------------------------------
\* State
\* ------------------------------------------------------------------------

VARIABLES
    tree,            \* fixtures/ai_kb: catalogue name -> directory
    catalogue_name,  \* self.catalogue_name
    dataSources,     \* remote: the data sources of the knowledge base
    jobs,            \* remote: the data source id of each ingestion job
    frameworks,      \* database: the ComplianceFramework records
    pc,              \* where load_catalogue is
    data_source_id,  \* self.data_source_id (0 is None)
    found,           \* existing_data_source was not None
    all_urls,        \* all_urls of load_catalogue
    validated_urls,  \* validated_urls of load_catalogue
    final_urls,      \* final_urls of load_catalogue
    job_id,          \* job_id of load_catalogue (0 before the job starts)
    elapsed,         \* time.time() - start_time while in the poll loop (a
                     \* local of the loop: 0 outside it)
    status,          \* what the last get_ingestion_job gave
    poll_message,    \* what the poll loop printed last on leaving
    ingestion_success, \* what _wait_for_ingestion_completion returned
    result,          \* what load_catalogue returned, or "raised"
    calls,           \* the calls of this run to the remote service and to
                     \* Django (loaddata, get_or_create), in order
    runs,            \* number of load_catalogue runs started
    argv,            \* sys.argv[1:] of load_ai_knowledge_base
    success,         \* success of load_ai_knowledge_base ("none" before
                     \* it is assigned)
    attempted,       \* the catalogues load_catalogue was called for
    outcomes,        \* what each of those calls returned, or "raised"
    exit_code,       \* the exit status, once pc is "exited"
    connected,       \* the audit signal handlers that are connected
    loader,          \* the bulk loader that runs, or "none"
    lpc,             \* where the bulk loader is
    directory,       \* the directory the bulk loader reads
    fixture_files,   \* its sorted fixture_files (django_fixtures)
    file_index,      \* the position of its loop in fixture_files
    loaded_files,    \* loaded_files of load_ato_tenant_fixtures
    failed_files,    \* failed_files of load_ato_tenant_fixtures
    loader_result    \* what the bulk loader returned, or "raised"

mainVars == <<argv, success, attempted, outcomes, exit_code>>

loaderVars == <<loader, lpc, directory, fixture_files, file_index,
                loaded_files, failed_files, loader_result>>

vars == <<tree, catalogue_name, dataSources, jobs, frameworks, pc, data_source_id, found,
          all_urls, validated_urls, final_urls, job_id, elapsed, status,
          poll_message, ingestion_success, result, calls, runs,
          mainVars, connected, loaderVars>>

\* pre_save_handler, post_save_handler and post_delete_handler of
\* core.signals, by the signal each is connected to.
Handlers == {"pre_save", "post_save", "post_delete"}

\* The three disconnect calls, and the three connect calls.
Disconnected(c) == c \ Handlers

\* The finally block, had it left out post_delete.
ReconnectedWithoutPostDelete(c) == c \cup {"pre_save", "post_save"}

Reconnected(c) == c \cup Handlers

\* Number of load_catalogue runs explored.
MaxRuns == 2

\* timeout_minutes=20 of _wait_for_ingestion_completion, in seconds.
timeout_minutes == 20
TimeoutSeconds == timeout_minutes * 60

\* time.sleep(30)
SleepSeconds == 30

\* The statuses get_ingestion_job can report; "STOPPED" stands for any
\* status the loop has no branch for.
JobStatuses == {"STARTING", "IN_PROGRESS", "COMPLETE", "FAILED", "STOPPED"}

\* ------------------------------------------------------------------------
\* URLs and directories of the explored configurations
\* ------------------------------------------------------------------------

UrlsA == <<"u", "r", "l", "s", "_", "a", ".", "j", "s", "o", "n">>
UrlsB == <<"u", "r", "l", "s", "_", "b", ".", "j", "s", "o", "n">>
DjangoA == <<"d", "j", "a", "n", "g", "o", "_", "a", ".", "j", "s", "o", "n">>
DjangoBase == <<"d", "j", "a", "n", "g", "o", "_", "b", "a", "s", "e", ".", "j", "s", "o", "n">>
NistFrameworkName == <<"N", "I", "S", "T", " ", "8", "0", "0", "-", "5", "3">>

BaseDirOk ==
    [exists |-> TRUE,
     files  |-> (UrlsA :> UrlsFile(<<U_B, U_A_padded>>))
                @@ (DjangoBase :> OtherFile("fixture"))]

BaseDirOver ==
    [exists |-> TRUE,
     files  |-> (UrlsA :> UrlsFile(<<LongUrl("l", 1500), LongUrl("m", 1501)>>))]

NistDirOk ==
    [exists |-> TRUE,
     files  |-> (UrlsB :> UrlsFile(<<U_A, U_C>>))
                @@ (UrlsA :> UrlsFile(<<U_C, U_not_a_url, U_A>>))
                @@ (DjangoA :> OtherFile("fixture"))
                @@ (CatalogueInfoName :>
                        InfoFile("name" :> NistFrameworkName))]

NistDirOver ==
    [exists |-> TRUE,
     files  |-> (UrlsA :> UrlsFile(<<LongUrl("l", 1500)>>))
                @@ (UrlsB :> UrlsFile(<<LongUrl("m", 1501)>>))]

NistDirInvalid ==
    [exists |-> TRUE,
     files  |-> (UrlsA :> UrlsFile(<<U_not_a_url, U_empty>>))]

NistDirBracket ==
    [exists |-> TRUE,
     files  |-> (UrlsA :> UrlsFile(<<U_A, U_bracket>>))]

\* The same URL files in directories that hold no Django fixture.
BaseDirUrls ==
    [exists |-> TRUE,
     files  |-> (UrlsA :> UrlsFile(<<U_B, U_A_padded>>))]

NistDirUrls ==
    [exists |-> TRUE,
     files  |-> (UrlsB :> UrlsFile(<<U_A, U_C>>))
                @@ (UrlsA :> UrlsFile(<<U_C, U_not_a_url, U_A>>))]

\* A URL file that is not JSON, sorted before a good one.
NistDirMalformed ==
    [exists |-> TRUE,
     files  |-> (UrlsA :> OtherFile("malformed"))
                @@ (UrlsB :> UrlsFile(<<U_A>>))]

\* The directory trees explored: both directories usable; only invalid URLs;
\* over budget through the base URLs; over budget on its own; a URL on
\* which urlparse raises; a catalogue directory without files; a URL file
\* that json.load rejects.
Trees ==
    { (BASE :> BaseDirOk)   @@ (NIST :> NistDirOk),
      (BASE :> NoDir)       @@ (NIST :> NistDirMalformed),
      (BASE :> NoDir)       @@ (NIST :> NistDirInvalid),
      (BASE :> BaseDirOver) @@ (NIST :> NistDirOk),
      (BASE :> NoDir)       @@ (NIST :> NistDirOver),
      (BASE :> NoDir)       @@ (NIST :> NistDirBracket),
      (BASE :> NoDir)       @@ (NIST :> EmptyDir) }

\* A remote data source: dataSourceConfiguration.type, the seedUrls of its
\* webConfiguration, and the number of " - Updated ... URLs" suffixes of its
\* description.
DataSource(id, name, type, urls) ==
    [dataSourceId |-> id, name |-> name, type |-> type, seedUrls |-> urls,
     descUpdates |-> 0]

OtherName == <<"m", "a", "n", "u", "a", "l", "-", "s", "o", "u", "r", "c", "e">>

\* What the knowledge base can hold before the first run for cat: nothing;
\* a web data source of the catalogue's name, after one of another name; a
\* data source of the catalogue's name that is not a web crawler.
InitialRemotes(cat) ==
    { <<>>,
      <<DataSource(1, OtherName, "WEB", <<U_old>>),
        DataSource(2, CreateName(cat), "WEB", <<U_old, U_A>>)>>,
      <<DataSource(1, CreateName(cat), "S3", <<>>)>> }

\* The locals of a loader that has not run yet (__init__, lines 23-29).
FreshLoader ==
    /\ pc = "idle"
    /\ data_source_id = 0
    /\ found = FALSE
    /\ all_urls = <<>>
    /\ validated_urls = <<>>
    /\ final_urls = <<>>
    /\ job_id = 0
    /\ elapsed = 0
    /\ status = "none"
    /\ poll_message = "none"
    /\ ingestion_success = "none"
    /\ result = "none"
    /\ calls = <<>>

\* load_ai_knowledge_base has made the loader of the catalogue named on
\* the command line and is about to call its load_catalogue (lines
\* 597-599).
SingleMode ==
    /\ argv = <<catalogue_name>>
    /\ success = "none"
    /\ attempted = <<catalogue_name>>
    /\ outcomes = <<>>
    /\ exit_code = 0

\* No bulk loader runs; the handlers are connected.
NoBulkLoader ==
    /\ connected = Handlers
    /\ loader = "none"
    /\ lpc = "none"
    /\ directory = NoDir
    /\ fixture_files = <<>>
    /\ file_index = 0
    /\ loaded_files = <<>>
    /\ failed_files = <<>>
    /\ loader_result = "none"

Init ==
    /\ tree \in Trees
    /\ catalogue_name \in Catalogues
    /\ dataSources \in InitialRemotes(catalogue_name)
    /\ jobs = <<>>
    /\ frameworks = {}
    /\ runs = 1
    /\ FreshLoader
    /\ SingleMode
    /\ NoBulkLoader

\* ------------------------------------------------------------------------
\* load_catalogue, step by step
\* ------------------------------------------------------------------------

Call(op, req, ok) == [op |-> op, req |-> req, ok |-> ok]

NoReq == [none |-> TRUE]

\* load_catalogue returns value (or raises) and the run is over.
Leave(value) ==
    /\ pc' = "done"
    /\ result' = value

\* Lines 53-64: the catalogue directory must exist.
LoadCatalogueStart ==
    /\ pc = "idle"
    /\ IF ~tree[catalogue_name].exists
       THEN Leave("False")
       ELSE pc' = "resolve" /\ UNCHANGED result
    /\ UNCHANGED <<tree, catalogue_name, dataSources, jobs, frameworks, data_source_id,
                   found, all_urls, validated_urls, final_urls, job_id,
                   elapsed, status, poll_message, ingestion_success, calls,
                   runs>>
    /\ UNCHANGED <<mainVars, connected, loaderVars>>

\* _create_catalogue_data_source (lines 365-441), after the calls so far:
\* reconcile the URLs again, raise when urlparse raised or the budget is
\* exceeded, otherwise call create_data_source, which the service accepts
\* or rejects.
CreateCatalogueDataSource(sofar) ==
    LET validated == validate_and_clean_urls(
                         CreateAllUrls(tree, catalogue_name))
        urls      == deduplicate_urls(validated.valid_urls)
        name      == CreateName(catalogue_name)
        id        == Len(dataSources) + 1
    IN  IF validated.raised \/ CreateExceedsLimit(urls)
        THEN /\ Leave("raised")
             /\ calls' = sofar
             /\ UNCHANGED <<dataSources, data_source_id>>
        ELSE \E accepted \in BOOLEAN :
                /\ calls' = Append(sofar,
                                Call("create_data_source",
                                     [name |-> name, seedUrls |-> urls],
                                     accepted))
                /\ IF accepted
                   THEN /\ dataSources' =
                              Append(dataSources,
                                     DataSource(id, name, "WEB", urls))
                        /\ data_source_id' = id
                        /\ pc' = "load"
                        /\ UNCHANGED result
                   ELSE /\ Leave("raised")
                        /\ UNCHANGED <<dataSources, data_source_id>>

\* _get_or_create_catalogue_data_source (lines 237-252) with
\* _find_data_source_by_name (lines 254-268): list_data_sources answers or
\* raises; a raise is caught and gives None, like no match.
GetOrCreateDataSource ==
    /\ pc = "resolve"
    /\ \E listed \in BOOLEAN :
          LET summaries == IF listed THEN dataSources ELSE <<>>
              i         == FindByName(summaries,
                                      LookupName(catalogue_name))
              sofar     == Append(calls,
                                  Call("list_data_sources", NoReq, listed))
          IN  IF i # 0
              THEN /\ found' = TRUE
                   /\ data_source_id' = summaries[i].dataSourceId
                   /\ pc' = "load"
                   /\ calls' = sofar
                   /\ UNCHANGED <<dataSources, result>>
              ELSE /\ found' = FALSE
                   /\ CreateCatalogueDataSource(sofar)
    /\ UNCHANGED <<tree, catalogue_name, jobs, frameworks, all_urls, validated_urls,
                   final_urls, job_id, elapsed, status, poll_message,
                   ingestion_success, runs>>
    /\ UNCHANGED <<mainVars, connected, loaderVars>>

\* Lines 69-101 and 124-126: load, validate, deduplicate, check the budget.
ReconcileUrls ==
    /\ pc = "load"
    /\ LET loaded    == AllUrls(tree, catalogue_name)
           validated == validate_and_clean_urls(loaded)
           urls      == deduplicate_urls(validated.valid_urls)
       IN  /\ all_urls' = loaded
           /\ IF loaded = <<>>
              THEN /\ Leave("False")
                   /\ UNCHANGED <<validated_urls, final_urls>>
              ELSE IF validated.raised
              THEN /\ Leave("raised")
                   /\ UNCHANGED <<validated_urls, final_urls>>
              ELSE /\ validated_urls' = validated.valid_urls
                   /\ final_urls' = urls
                   /\ IF ExceedsLimit(urls)
                      THEN Leave("False")
                      ELSE pc' = "update" /\ UNCHANGED result
    /\ UNCHANGED <<tree, catalogue_name, dataSources, jobs, frameworks, data_source_id,
                   found, job_id, elapsed, status, poll_message,
                   ingestion_success, calls, runs>>
    /\ UNCHANGED <<mainVars, connected, loaderVars>>

\* _update_data_source_urls without its outer try: a raise of
\* get_data_source, or the raise for a data source that is not a web
\* crawler, leaves load_catalogue.
UpdateDataSourceUrlsRaising ==
    /\ pc = "update"
    /\ LET current == dataSources[data_source_id]
           request == UpdateRequest(current, data_source_id, final_urls)
           got(ok) == Append(calls, Call("get_data_source",
                                  [dataSourceId |-> data_source_id], ok))
       IN  \/ /\ calls' = got(FALSE)
              /\ Leave("raised")
              /\ UNCHANGED dataSources
           \/ /\ current.type # "WEB"
              /\ calls' = got(TRUE)
              /\ Leave("raised")
              /\ UNCHANGED dataSources
           \/ /\ current.type = "WEB"
              /\ \E accepted \in BOOLEAN :
                    /\ calls' = Append(got(TRUE),
                           Call("update_data_source", request, accepted))
                    /\ IF accepted
                       THEN /\ dataSources' =
                                  [dataSources EXCEPT ![data_source_id] =
                                      Updated(current, request)]
                            /\ pc' = "start"
                            /\ UNCHANGED result
                       ELSE /\ Leave("raised")
                            /\ UNCHANGED dataSources
    /\ UNCHANGED <<tree, catalogue_name, jobs, frameworks, data_source_id, found,
                   all_urls, validated_urls, final_urls, job_id, elapsed,
                   status, poll_message, ingestion_success, runs>>
    /\ UNCHANGED <<mainVars, connected, loaderVars>>

\* _update_data_source_urls (lines 311-363).  get_data_source answers or
\* raises; a data source that is not a web crawler raises; the first
\* update_data_source is accepted, rejected with an error naming
\* vectorIngestionConfiguration, or rejected otherwise; after the named
\* rejection a second update_data_source is made, accepted or rejected.
\* Every raise is caught and the run goes on.
UpdateDataSourceUrls ==
    /\ pc = "update"
    /\ pc' = "start"
    /\ LET current == dataSources[data_source_id]
           request == UpdateRequest(current, data_source_id, final_urls)
           retry   == RetryRequest(request)
           got(ok) == Append(calls, Call("get_data_source",
                                  [dataSourceId |-> data_source_id], ok))
       IN  \/ /\ calls' = got(FALSE)
              /\ UNCHANGED dataSources
           \/ /\ current.type # "WEB"
              /\ calls' = got(TRUE)
              /\ UNCHANGED dataSources
           \/ /\ current.type = "WEB"
              /\ \E first \in {"accepted", "vector_rejected", "rejected"} :
                    IF first = "accepted"
                    THEN /\ calls' = Append(got(TRUE),
                                Call("update_data_source", request, TRUE))
                         /\ dataSources' =
                               [dataSources EXCEPT ![data_source_id] =
                                   Updated(current, request)]
                    ELSE IF first = "rejected"
                    THEN /\ calls' = Append(got(TRUE),
                                Call("update_data_source", request, FALSE))
                         /\ UNCHANGED dataSources
                    ELSE \E second \in BOOLEAN :
                            /\ calls' = got(TRUE) \o
                                 <<Call("update_data_source", request, FALSE),
                                   Call("update_data_source", retry, second)>>
                            /\ IF second
                               THEN dataSources' =
                                      [dataSources EXCEPT ![data_source_id] =
                                          Updated(current, retry)]
                               ELSE UNCHANGED dataSources
    /\ UNCHANGED <<tree, catalogue_name, jobs, frameworks, data_source_id, found,
                   all_urls, validated_urls, final_urls, job_id, elapsed,
                   status, poll_message, ingestion_success, result, runs>>
    /\ UNCHANGED <<mainVars, connected, loaderVars>>

\* _start_ingestion_job, had it caught the failure of the call and
\* returned no job id.
StartIngestionJobSwallowing ==
    /\ pc = "start"
    /\ \E started \in BOOLEAN :
          /\ calls' = Append(calls, Call("start_ingestion_job",
                                 [dataSourceId |-> data_source_id], started))
          /\ pc' = "poll"
          /\ elapsed' = 0
          /\ IF started
             THEN /\ jobs' = Append(jobs, data_source_id)
                  /\ job_id' = Len(jobs) + 1
             ELSE UNCHANGED <<jobs, job_id>>
          /\ UNCHANGED result
    /\ UNCHANGED <<tree, catalogue_name, dataSources, frameworks,
                   data_source_id, found,
                   all_urls, validated_urls, final_urls, status,
                   poll_message, ingestion_success, runs>>
    /\ UNCHANGED <<mainVars, connected, loaderVars>>

\* _start_ingestion_job (lines 512-530): the job starts, or the call raises
\* and the raise leaves load_catalogue.  start_time is taken on entering the
\* poll loop (line 201).
StartIngestionJob ==
    /\ pc = "start"
    /\ \E started \in BOOLEAN :
          /\ calls' = Append(calls, Call("start_ingestion_job",
                                 [dataSourceId |-> data_source_id], started))
          /\ IF started
             THEN /\ jobs' = Append(jobs, data_source_id)
                  /\ job_id' = Len(jobs) + 1
                  /\ elapsed' = 0
                  /\ pc' = "poll"
                  /\ UNCHANGED result
             ELSE /\ Leave("raised")
                  /\ UNCHANGED <<jobs, job_id, elapsed>>
    /\ UNCHANGED <<tree, catalogue_name, dataSources, frameworks,
                   data_source_id, found,
                   all_urls, validated_urls, final_urls, status,
                   poll_message, ingestion_success, runs>>
    /\ UNCHANGED <<mainVars, connected, loaderVars>>

\* The loop test, had it been written with <=.
LoopTestInclusive(e) == e <= TimeoutSeconds

\* The loop test of _wait_for_ingestion_completion (line 203).
LoopTest(e) == e < TimeoutSeconds

\* The loop body, had it taken every status it does not know for a failure.
PollBranchUnknownFails(answer) ==
    IF answer = "COMPLETE" THEN "return_true"
    ELSE IF answer \in {"STARTING", "IN_PROGRESS", "error"} THEN "sleep"
    ELSE "return_false"

\* What the loop body does with the answer of get_ingestion_job (lines
\* 213-232): return True, return False, or sleep and go round again.
PollBranch(answer) ==
    IF answer = "COMPLETE" THEN "return_true"
    ELSE IF answer = "FAILED" THEN "return_false"
    ELSE "sleep"

\* The value returned on timeout, had the loop fallen off its end.
ReturnOnTimeoutNone == "None"

\* The value returned on status FAILED (line 221) and the one returned
\* when the loop test fails (line 235).
ReturnOnFailed == "False"
ReturnOnTimeout == "False"

\* The status query, had it been made without the job's identifier.
PollRequestWithoutJob(ds, job) == [dataSourceId |-> ds, ingestionJobId |-> 0]

\* The arguments of get_ingestion_job (lines 205-209).
PollRequest(ds, job) == [dataSourceId |-> ds, ingestionJobId |-> job]

\* One iteration of the loop of _wait_for_ingestion_completion (lines
\* 203-232): the loop test holds, get_ingestion_job gives a status or
\* raises ("error"), and the loop returns or sleeps.  The clock advances
\* by the sleep; the calls themselves take no time.  elapsed is a local of
\* the loop and is 0 again once the loop is left.
PollQuery ==
    /\ pc = "poll"
    /\ LoopTest(elapsed)
    /\ calls' = Append(calls, Call("get_ingestion_job",
                           PollRequest(data_source_id, job_id), TRUE))
    /\ \E answer \in JobStatuses \cup {"error"} :
          /\ status' = answer
          /\ IF PollBranch(answer) = "return_true"
             THEN /\ poll_message' = "completed"
                  /\ ingestion_success' = "True"
                  /\ pc' = "returned"
                  /\ elapsed' = 0
             ELSE IF PollBranch(answer) = "return_false"
             THEN /\ poll_message' = "failed"
                  /\ ingestion_success' = ReturnOnFailed
                  /\ pc' = "returned"
                  /\ elapsed' = 0
             ELSE /\ elapsed' = elapsed + SleepSeconds
                  /\ UNCHANGED <<poll_message, ingestion_success, pc>>
    /\ UNCHANGED <<tree, catalogue_name, dataSources, jobs, frameworks, data_source_id,
                   found, all_urls, validated_urls, final_urls, job_id,
                   result, runs>>
    /\ UNCHANGED <<mainVars, connected, loaderVars>>

\* The loop test fails (lines 203, 234-235): timeout.
PollTimeout ==
    /\ pc = "poll"
    /\ ~LoopTest(elapsed)
    /\ poll_message' = "timeout"
    /\ ingestion_success' = ReturnOnTimeout
    /\ pc' = "returned"
    /\ elapsed' = 0
    /\ UNCHANGED <<tree, catalogue_name, dataSources, jobs, frameworks, data_source_id,
                   found, all_urls, validated_urls, final_urls, job_id,
                   status, result, calls, runs>>
    /\ UNCHANGED <<mainVars, connected, loaderVars>>

\* The loaddata calls of _load_django_fixtures_from_dir (lines 457-486) on
\* the sorted fixtures of a directory: one per fixture up to and including
\* the first that raises (failAt; 0 when none raises).  The three audit
\* signal handlers are disconnected before the first call and reconnected
\* in the finally block, so they are connected when the function returns;
\* the raise is caught there.
LoadDataCalls(dirName, fixtures, failAt) ==
    [k \in 1..(IF failAt = 0 THEN Len(fixtures) ELSE failAt) |->
        Call("loaddata", [dir |-> dirName, file |-> fixtures[k]],
             k # failAt)]

\* The same, had _load_django_fixtures_from_dir let the exception of
\* loaddata through to the handler of _load_django_fixtures (line 454).
LoadDjangoFixturesStoppingAtFailure ==
    LET own      == tree[catalogue_name]
        baseFix  == IF UsesBase(tree, catalogue_name)
                    THEN DjangoFixtures(tree[BASE]) ELSE <<>>
        ownFix   == DjangoFixtures(own)
        hasInfo  == CatalogueInfoName \in DOMAIN own.files
        readable == hasInfo /\ own.files[CatalogueInfoName].kind = "info"
        record   == FrameworkRecord(own.files[CatalogueInfoName].info,
                                    catalogue_name)
    IN  \E baseFail \in 0..Len(baseFix), ownFail \in 0..Len(ownFix),
           saved \in BOOLEAN :
           /\ readable \/ saved
           /\ baseFail # 0 => ownFail = 0
           /\ (baseFail # 0 \/ ownFail # 0) => saved
           /\ calls' = calls
                 \o LoadDataCalls(BASE, baseFix, baseFail)
                 \o (IF baseFail = 0
                     THEN LoadDataCalls(catalogue_name, ownFix, ownFail)
                     ELSE <<>>)
                 \o (IF readable /\ baseFail = 0 /\ ownFail = 0
                     THEN <<Call("get_or_create", [name |-> record.name],
                                 saved)>>
                     ELSE <<>>)
           /\ frameworks' = IF readable /\ saved /\ baseFail = 0
                               /\ ownFail = 0
                            THEN GetOrCreate(frameworks, record)
                            ELSE frameworks
           /\ connected' = IF baseFix # <<>> \/ ownFix # <<>>
                           THEN Reconnected(Disconnected(connected))
                           ELSE connected

\* _load_django_fixtures (lines 443-455) with _update_compliance_framework
\* (lines 488-510): the base fixtures when the base directory is used, the
\* catalogue's fixtures, then the framework record when catalogue_info.json
\* exists; reading it or get_or_create may raise, which is caught.
LoadDjangoFixtures ==
    LET own      == tree[catalogue_name]
        baseFix  == IF UsesBase(tree, catalogue_name)
                    THEN DjangoFixtures(tree[BASE]) ELSE <<>>
        ownFix   == DjangoFixtures(own)
        hasInfo  == CatalogueInfoName \in DOMAIN own.files
        readable == hasInfo /\ own.files[CatalogueInfoName].kind = "info"
        record   == FrameworkRecord(own.files[CatalogueInfoName].info,
                                    catalogue_name)
    IN  \E baseFail \in 0..Len(baseFix), ownFail \in 0..Len(ownFix),
           saved \in BOOLEAN :
           /\ readable \/ saved
           /\ calls' = calls
                 \o LoadDataCalls(BASE, baseFix, baseFail)
                 \o LoadDataCalls(catalogue_name, ownFix, ownFail)
                 \o (IF readable
                     THEN <<Call("get_or_create", [name |-> record.name],
                                 saved)>>
                     ELSE <<>>)
           /\ frameworks' = IF readable /\ saved
                            THEN GetOrCreate(frameworks, record)
                            ELSE frameworks
           /\ connected' = IF baseFix # <<>> \/ ownFix # <<>>
                           THEN Reconnected(Disconnected(connected))
                           ELSE connected

\* Lines 110-123, had the fixtures been loaded before the test of
\* ingestion_success.
AfterIngestionAlwaysLoading ==
    /\ pc = "returned"
    /\ LoadDjangoFixtures
    /\ Leave(ingestion_success)
    /\ UNCHANGED <<tree, catalogue_name, dataSources, jobs, data_source_id,
                   found, all_urls, validated_urls, final_urls, job_id,
                   elapsed, status, poll_message, ingestion_success, runs>>
    /\ UNCHANGED <<mainVars, loaderVars>>

\* Lines 110-123: what load_catalogue does with ingestion_success.
AfterIngestion ==
    /\ pc = "returned"
    /\ IF ingestion_success = "True"
       THEN LoadDjangoFixtures /\ Leave("True")
       ELSE Leave("False") /\ UNCHANGED <<calls, frameworks, connected>>
    /\ UNCHANGED <<tree, catalogue_name, dataSources, jobs, data_source_id,
                   found, all_urls, validated_urls, final_urls, job_id,
                   elapsed, status, poll_message, ingestion_success, runs>>
    /\ UNCHANGED <<mainVars, loaderVars>>

\* The loader is run again for the same catalogue, with a new
\* AIKnowledgeBaseLoader (lines 598-599, 23-29).
NewRun ==
    /\ pc = "done"
    /\ runs < MaxRuns
    /\ runs' = runs + 1
    /\ pc' = "idle"
    /\ data_source_id' = 0
    /\ found' = FALSE
    /\ all_urls' = <<>>
    /\ validated_urls' = <<>>
    /\ final_urls' = <<>>
    /\ job_id' = 0
    /\ elapsed' = 0
    /\ status' = "none"
    /\ poll_message' = "none"
    /\ ingestion_success' = "none"
    /\ result' = "none"
    /\ calls' = <<>>
    /\ UNCHANGED <<tree, catalogue_name, dataSources, jobs, frameworks>>
    /\ UNCHANGED <<mainVars, connected, loaderVars>>

\* One run of load_catalogue.
Next ==
    \/ LoadCatalogueStart
    \/ GetOrCreateDataSource
    \/ ReconcileUrls
    \/ UpdateDataSourceUrls
    \/ StartIngestionJob
    \/ PollQuery
    \/ PollTimeout
    \/ AfterIngestion

Spec == Init /\ [][Next]_vars

\* The same run under the scheduling of a sequential program: the poll loop
\* goes on as long as it can.
LiveSpec ==
    Init /\ [][Next]_vars /\ WF_vars(PollQuery) /\ WF_vars(PollTimeout)

\* Repeated runs for one catalogue against the same knowledge base, which
\* is empty or holds the catalogue's data source before the first run.
InitRuns ==
    /\ tree = (BASE :> BaseDirUrls) @@ (NIST :> NistDirUrls)
    /\ catalogue_name \in Catalogues
    /\ dataSources \in
          { <<>>,
            <<DataSource(1, OtherName, "WEB", <<U_old>>),
              DataSource(2, CreateName(catalogue_name), "WEB",
                         <<U_old, U_A>>)>> }
    /\ jobs = <<>>
    /\ frameworks = {}
    /\ runs = 1
    /\ FreshLoader
    /\ SingleMode
    /\ NoBulkLoader

NextRuns == Next \/ NewRun

SpecRuns == InitRuns /\ [][NextRuns]_vars

\* A record of the catalogue's name that is in the table before the first
\* run, with a description and a version of its own.
OldFramework ==
    [name        |-> NistFrameworkName,
     description |-> <<"I", "m", "p", "o", "r", "t", "e", "d", " ", "b", "y", " ", "h", "a", "n", "d">>,
     version     |-> <<"0", ".", "9">>]

\* Repeated runs for the catalogue that has a catalogue_info document,
\* against a table that is empty or holds a record of its name.
InitFrameworks ==
    /\ tree = (BASE :> BaseDirUrls) @@ (NIST :> NistDirOk)
    /\ catalogue_name = NIST
    /\ dataSources =
          <<DataSource(1, CreateName(catalogue_name), "WEB", <<U_old>>)>>
    /\ jobs = <<>>
    /\ frameworks \in {{}, {OldFramework}}
    /\ runs = 1
    /\ FreshLoader
    /\ SingleMode
    /\ NoBulkLoader

SpecFrameworks == InitFrameworks /\ [][NextRuns]_vars

\* ------------------------------------------------------------------------
\* Reconciliation over many URL lists
\* ------------------------------------------------------------------------

\* Longest URL list of the catalogue's own file, and of the base file.
MaxUrls == 2
MaxBaseUrls == 1

\* The URLs the catalogue's file is drawn from: valid ones, one that is
\* valid once stripped, a suspicious one, and ones without scheme or host,
\* empty, blank, or with a bad netloc.
UrlPool == {U_A, U_A_padded, U_B, U_C, U_not_a_url, U_empty, U_blank,
            U_mailto, U_bracket}

BaseUrlPool == {U_A, U_B, U_not_a_url}

\* The sequences over pool of length at most n.
ListsUpTo(pool, n) == UNION {[1..k -> pool] : k \in 0..n}

\* The list of the example: a URL twice, a non-URL, an empty string.
ExampleUrls == <<U_A, U_A, U_not_a_url, U_empty>>

OneFileDir(urls) == [exists |-> TRUE, files |-> (UrlsA :> UrlsFile(urls))]

\* A list with a URL longer than 200 characters.
LongUrls == <<LongUrl("l", 201), U_A, LongUrl("l", 201)>>

OwnDirs ==
    {OneFileDir(l) :
        l \in ListsUpTo(UrlPool, MaxUrls) \cup {ExampleUrls, LongUrls}}

OtherBaseDirs ==
    {NoDir} \cup {OneFileDir(l) : l \in ListsUpTo(BaseUrlPool, MaxBaseUrls)}

\* The trees in which cat has a directory of its own with one URL file; for
\* a catalogue other than 'base' the base directory is absent or has one
\* URL file too.
ReconcileTrees(cat) ==
    IF cat = BASE
    THEN {(BASE :> own) @@ (NIST :> NoDir) : own \in OwnDirs}
    ELSE {(BASE :> b) @@ (NIST :> own) : b \in OtherBaseDirs, own \in OwnDirs}

\* The knowledge base holds the catalogue's data source, or nothing.
InitReconcile ==
    /\ catalogue_name \in Catalogues
    /\ tree \in ReconcileTrees(catalogue_name)
    /\ dataSources \in
          { <<>>,
            <<DataSource(1, CreateName(catalogue_name), "WEB", <<U_old>>)>> }
    /\ jobs = <<>>
    /\ frameworks = {}
    /\ runs = 1
    /\ FreshLoader
    /\ SingleMode
    /\ NoBulkLoader

\* load_catalogue up to the end of the reconciliation.
NextReconcile ==
    \/ LoadCatalogueStart
    \/ GetOrCreateDataSource
    \/ ReconcileUrls

SpecReconcile == InitReconcile /\ [][NextReconcile]_vars

\* ------------------------------------------------------------------------
\* The URL files of one directory
\* ------------------------------------------------------------------------

ZJson == <<"Z", ".", "j", "s", "o", "n">>
NotesTxt == <<"n", "o", "t", "e", "s", ".", "t", "x", "t">>

Absent == OtherFile("absent")

\* The entry of a directory listing for name, when the file is there.
Entry(name, data) ==
    IF data = Absent THEN <<>> ELSE (name :> data)

\* Directories holding some of: two URL files, of which the first may have
\* no 'urls' list or not be JSON; a URL file whose name starts with a
\* capital; a catalogue_info.json that has a 'urls' list or none; a Django
\* fixture; a file with a 'urls' list whose name does not end in .json.
UrlDirs ==
    {[exists |-> TRUE,
      files  |-> Entry(UrlsA, a) @@ Entry(UrlsB, b) @@ Entry(ZJson, z)
                 @@ Entry(CatalogueInfoName, i) @@ Entry(DjangoA, d)
                 @@ Entry(NotesTxt, t)] :
        a \in {Absent, UrlsFile(<<U_A, U_B>>), OtherFile("nourls"),
               OtherFile("malformed")},
        b \in {Absent, UrlsFile(<<U_C, U_A>>)},
        z \in {Absent, UrlsFile(<<U_old>>)},
        i \in {Absent, OtherFile("nourls"), UrlsFile(<<U_B>>)},
        d \in {Absent, OtherFile("fixture")},
        t \in {Absent, UrlsFile(<<U_mailto>>)}}

\* A run for a catalogue whose directory is one of these, without a base
\* directory, against a knowledge base that is empty or holds its data
\* source.
InitUrls ==
    /\ catalogue_name = NIST
    /\ tree \in {(BASE :> NoDir) @@ (NIST :> dir) : dir \in UrlDirs}
    /\ dataSources \in
          { <<>>,
            <<DataSource(1, CreateName(catalogue_name), "WEB", <<U_old>>)>> }
    /\ jobs = <<>>
    /\ frameworks = {}
    /\ runs = 1
    /\ FreshLoader
    /\ SingleMode
    /\ NoBulkLoader

SpecUrls == InitUrls /\ [][NextReconcile]_vars

\* ------------------------------------------------------------------------
\* Reconciliation around the size budget
\* ------------------------------------------------------------------------

\* Lists around the budget: exactly 3000 characters; 3000 once trimmed and
\* deduplicated; 2999; 3001; one URL of 3000 and one of 3001; a short one.
Exactly3000 == <<LongUrl("l", 1500), LongUrl("m", 1500)>>
Reconciled3000 ==
    <<LongUrl("l", 1500), <<" ">> \o LongUrl("m", 1500),
      LongUrl("l", 1500) \o <<" ">>>>
Exactly2999 == <<LongUrl("l", 1500), LongUrl("m", 1499)>>
Exactly3001 == <<LongUrl("l", 1500), LongUrl("m", 1501)>>

BudgetLists ==
    {Exactly3000, Reconciled3000, Exactly2999, Exactly3001,
     <<LongUrl("l", 3000)>>, <<LongUrl("l", 3001)>>, <<U_A>>}

\* Base directories beside them: none; one short URL, which takes a list at
\* the limit over it; a URL the catalogue has too.
BudgetBaseDirs ==
    {NoDir, OneFileDir(<<U_B>>), OneFileDir(<<LongUrl("l", 1500)>>)}

BudgetTrees(cat) ==
    IF cat = BASE
    THEN {(BASE :> OneFileDir(l)) @@ (NIST :> NoDir) : l \in BudgetLists}
    ELSE {(BASE :> b) @@ (NIST :> OneFileDir(l)) :
             b \in BudgetBaseDirs, l \in BudgetLists}

InitBudget ==
    /\ catalogue_name \in Catalogues
    /\ tree \in BudgetTrees(catalogue_name)
    /\ dataSources \in
          { <<>>,
            <<DataSource(1, CreateName(catalogue_name), "WEB", <<U_old>>)>> }
    /\ jobs = <<>>
    /\ frameworks = {}
    /\ runs = 1
    /\ FreshLoader
    /\ SingleMode
    /\ NoBulkLoader

SpecBudget == InitBudget /\ [][NextReconcile]_vars

\* ------------------------------------------------------------------------
\* load_ai_knowledge_base: the command line, the batch, the exit status
\* ------------------------------------------------------------------------

ALL == <<"a", "l", "l">>
FEDRAMP == <<"f", "e", "d", "r", "a", "m", "p">>
HIDDEN == <<".", "c", "a", "c", "h", "e">>
BOGUS == <<"b", "o", "g", "u", "s">>
NIST_ARG == <<" ", "N", "I", "S", "T", " ">>

\* The names the command line accepts whether or not they have a directory
\* (lines 565-576).
KnownNames ==
    {BASE, <<"n", "i", "s", "t", "-", "8", "0", "0", "-", "5", "3">>, <<"i", "t", "s", "g", "-", "3", "3">>,
     FEDRAMP, <<"g", "e", "n", "e", "r", "a", "l">>, ALL}

\* available_catalogues (lines 553-560): the directories of fixtures/ai_kb
\* whose name does not start with a dot, sorted.
available_catalogues ==
    Sorted({d \in DOMAIN tree : tree[d].exists /\ ~StartsWith(d, <<".">>)})

\* catalogue_name of load_ai_knowledge_base (line 563).
CatalogueArg == Strip(LowerStr(argv[1]))

\* The command line names something to load (lines 562-594).
Accepted ==
    /\ Len(argv) > 0
    /\ \/ CatalogueArg \in KnownNames
       \/ \E i \in 1..Len(available_catalogues) :
             available_catalogues[i] = CatalogueArg

\* The locals of load_catalogue and of its loader.
loaderLocals ==
    <<data_source_id, found, all_urls, validated_urls, final_urls, job_id,
      elapsed, status, poll_message, ingestion_success, result, calls>>

\* sys.exit(code), also through the handler of lines 637-639.
Exit(code) ==
    /\ pc' = "exited"
    /\ exit_code' = code

\* A loader is made for cat and its load_catalogue is called (lines
\* 598-599 and 611-612).
StartCatalogue(cat) ==
    /\ catalogue_name' = cat
    /\ attempted' = Append(attempted, cat)
    /\ runs' = runs + 1
    /\ pc' = "idle"
    /\ data_source_id' = 0
    /\ found' = FALSE
    /\ all_urls' = <<>>
    /\ validated_urls' = <<>>
    /\ final_urls' = <<>>
    /\ job_id' = 0
    /\ elapsed' = 0
    /\ status' = "none"
    /\ poll_message' = "none"
    /\ ingestion_success' = "none"
    /\ result' = "none"
    /\ calls' = <<>>

\* Lines 625-639 with success s: the closing message of 'all' mode names
\* available_catalogues[-1], which raises IndexError on an empty list; the
\* handler of line 637 turns that into exit status 1.
Finish(s) ==
    IF s = "True"
    THEN IF CatalogueArg = ALL /\ available_catalogues = <<>>
         THEN Exit(1)
         ELSE Exit(0)
    ELSE Exit(1)

\* Lines 546-612 up to the first call of load_catalogue.
MainStart ==
    /\ pc = "main"
    /\ IF ~Accepted
       THEN /\ Exit(1)
            /\ UNCHANGED <<success, catalogue_name, attempted, runs,
                           loaderLocals>>
       ELSE IF CatalogueArg # ALL
       THEN /\ StartCatalogue(CatalogueArg)
            /\ UNCHANGED <<success, exit_code>>
       ELSE /\ success' = "True"
            /\ IF available_catalogues = <<>>
               THEN /\ Finish("True")
                    /\ UNCHANGED <<catalogue_name, attempted, runs,
                                   loaderLocals>>
               ELSE /\ StartCatalogue(available_catalogues[1])
                    /\ UNCHANGED exit_code
    /\ UNCHANGED <<tree, dataSources, jobs, frameworks, argv, outcomes,
                   connected, loaderVars>>

\* load_catalogue has returned or raised (lines 599, 612-639): a raise
\* leaves through the handler of line 637; in single mode the result is
\* the success; in 'all' mode a failure clears success and the next
\* catalogue, if any, is loaded.
MainAfterCatalogue ==
    /\ pc = "done"
    /\ outcomes' = Append(outcomes, result)
    /\ IF result = "raised"
       THEN /\ Exit(1)
            /\ UNCHANGED <<success, catalogue_name, attempted, runs,
                           loaderLocals>>
       ELSE IF CatalogueArg # ALL
       THEN /\ success' = result
            /\ Finish(result)
            /\ UNCHANGED <<catalogue_name, attempted, runs, loaderLocals>>
       ELSE LET s == IF result = "True" THEN success ELSE "False"
                k == Len(attempted)
            IN  /\ success' = s
                /\ IF k < Len(available_catalogues)
                   THEN /\ StartCatalogue(available_catalogues[k + 1])
                        /\ UNCHANGED exit_code
                   ELSE /\ Finish(s)
                        /\ UNCHANGED <<catalogue_name, attempted, runs,
                                       loaderLocals>>
    /\ UNCHANGED <<tree, dataSources, jobs, frameworks, argv, connected,
                   loaderVars>>

\* The trees of fixtures/ai_kb explored from the command line: two
\* catalogues and a hidden directory; no catalogue at all; one catalogue
\* that is over budget.
MainTrees ==
    { (BASE :> BaseDirOk) @@ (NIST :> NistDirOk) @@ (FEDRAMP :> NoDir)
         @@ (HIDDEN :> EmptyDir),
      (BASE :> NoDir) @@ (NIST :> NoDir) @@ (FEDRAMP :> NoDir)
         @@ (HIDDEN :> EmptyDir),
      (BASE :> NoDir) @@ (NIST :> NistDirOver) @@ (FEDRAMP :> NoDir)
         @@ (HIDDEN :> NoDir) }

\* No argument, 'all', a catalogue in capitals and blanks, 'base', a known
\* name without a directory, an unknown name.
CommandLines == {<<>>, <<ALL>>, <<NIST_ARG>>, <<BASE>>, <<FEDRAMP>>, <<BOGUS>>}

\* load_ai_knowledge_base is entered; no loader exists yet.
InitMain ==
    /\ tree \in MainTrees
    /\ argv \in CommandLines
    /\ catalogue_name = <<>>
    /\ dataSources = <<>>
    /\ jobs = <<>>
    /\ frameworks = {}
    /\ runs = 0
    /\ pc = "main"
    /\ data_source_id = 0
    /\ found = FALSE
    /\ all_urls = <<>>
    /\ validated_urls = <<>>
    /\ final_urls = <<>>
    /\ job_id = 0
    /\ elapsed = 0
    /\ status = "none"
    /\ poll_message = "none"
    /\ ingestion_success = "none"
    /\ result = "none"
    /\ calls = <<>>
    /\ success = "none"
    /\ attempted = <<>>
    /\ outcomes = <<>>
    /\ exit_code = 0
    /\ NoBulkLoader

NextMain == Next \/ MainStart \/ MainAfterCatalogue

SpecMain == InitMain /\ [][NextMain]_vars

\* ------------------------------------------------------------------------
\* The bulk loaders and the audit signal handlers
\* ------------------------------------------------------------------------

\* skip_fixtures of loadAllFixtures.py.
skip_fixtures ==
    {<<"b", "l", "u", "e", "p", "r", "i", "n", "t">>,
     <<"c", "o", "l", "o", "r", "s">>,
     <<"p", "e", "r", "m", "i", "s", "s", "i", "o", "n", "s">>,
     <<"a", "t", "o", "_", "s", "t", "a", "t", "u", "s", "_", "c", "h", "o", "i", "c", "e", "s">>,
     <<"m", "o", "n", "t", "h", "s">>,
     <<"r", "i", "s", "k", "_", "l", "e", "v", "e", "l", "_", "c", "h", "o", "i", "c", "e", "s">>,
     <<"c", "o", "n", "t", "r", "o", "l", "s", "e", "t", "_", "t", "y", "p", "e", "s">>,
     <<"a", "u", "d", "i", "t", "t", "r", "a", "i", "l">>,
     <<"w", "i", "d", "g", "e", "t", "s">>,
     <<"s", "u", "p", "p", "o", "r", "t", "_", "c", "a", "s", "e", "_", "r", "e", "q", "u", "e", "s", "t", "_", "t", "y", "p", "e", "s">>}

\* f.split('.')[0]
BeforeDot(f) ==
    LET dot == FindFirst(f, {"."}, 1)
    IN  IF dot = 0 THEN f ELSE SubSeq(f, 1, dot - 1)

\* fixture_files of load_fixtures (lines 34-41).
AllFixtureFiles(dir) ==
    Sorted({f \in DOMAIN dir.files :
               EndsWith(f, JsonSuffix) /\ BeforeDot(f) \notin skip_fixtures})

\* all_json_files of get_ato_fixture_files, as a set.
TenantJsonFiles(dir) == {f \in DOMAIN dir.files : EndsWith(f, JsonSuffix)}

\* A fixture whose records are spelled out: data is the list json.load
\* gives.  An item of the list is [hasFields, fields]: a dict with a
\* 'fields' dict, or anything else.  A field value is a string; "" is <<>>.
FixtureFile(data) == [kind |-> "fixture", urls |-> <<>>, data |-> data]

Item(fields) == [hasFields |-> TRUE, fields |-> fields]

NoFieldsItem == [hasFields |-> FALSE, fields |-> <<>>]

\* The fields whose empty strings are not counted (lines 86-90).
OptionalFields ==
    {"description", "bio", "notes", "comments", "logo", "avatar",
     "profile_picture", "website", "linkedin_profile", "github_profile",
     "fax", "mobile", "last_login", "otp_code", "user_token"}

\* Line 92.
CriticalFields ==
    {"name", "company_name", "email", "username", "first_name", "last_name"}

EmptyFieldsWarning == 5

\* The <<item, field>> that the loop of lines 82-93 counts in
\* empty_string_count.
CountedEmpty(data) ==
    UNION {{<<i, f>> : f \in {g \in DOMAIN data[i].fields :
                                 /\ data[i].fields[g] = <<>>
                                 /\ g \notin OptionalFields}} :
              i \in {j \in 1..Len(data) : data[j].hasFields}}

\* Whether required_fields_empty is non-empty after the loop.
RequiredFieldsEmpty(data) ==
    \E e \in CountedEmpty(data) : e[2] \in CriticalFields

\* validate_ato_fixture_file on a file that json.load turns into the list
\* data (lines 75-105): is_valid, and whether the message is a warning.
validate_ato_fixture_file(data) ==
    IF data = <<>>
    THEN [is_valid |-> FALSE, warning |-> FALSE]
    ELSE IF Cardinality(CountedEmpty(data)) > EmptyFieldsWarning
    THEN [is_valid |-> TRUE, warning |-> TRUE]
    ELSE IF RequiredFieldsEmpty(data)
    THEN [is_valid |-> FALSE, warning |-> FALSE]
    ELSE [is_valid |-> TRUE, warning |-> FALSE]

\* One item with every field filled in: the content of a fixture whose
\* records are not spelled out.
PopulatedData == <<Item("name" :> <<"x">>)>>

FixtureData(file) ==
    IF "data" \in DOMAIN file THEN file.data ELSE PopulatedData

\* validate_ato_fixture_file says is_valid: the file parses (line 69), to a
\* list (line 72), and the list passes.
ValidFixture(dir, f) ==
    /\ dir.files[f].kind = "fixture"
    /\ validate_ato_fixture_file(FixtureData(dir.files[f])).is_valid

\* fixture_files of get_ato_fixture_files (lines 131-143).
TenantFixtureFiles(dir) ==
    Sorted({f \in TenantJsonFiles(dir) : ValidFixture(dir, f)})

\* Lines 160-196, had the test of invalid_files (lines 191-196) been left
\* out.
TenantPrecheckIgnoringInvalid(dir) ==
    IF ~dir.exists THEN "False"
    ELSE IF TenantJsonFiles(dir) = {} THEN "False"
    ELSE IF TenantFixtureFiles(dir) = <<>> THEN "False"
    ELSE "go"

\* What load_ato_tenant_fixtures returns before it touches the signals
\* (lines 160-196, without a remote bucket), or "go".
TenantPrecheck(dir) ==
    IF ~dir.exists THEN "False"
    ELSE IF TenantJsonFiles(dir) = {} THEN "False"
    ELSE IF \E f \in TenantJsonFiles(dir) : ~ValidFixture(dir, f)
    THEN "False"
    ELSE IF TenantFixtureFiles(dir) = <<>> THEN "False"
    ELSE "go"

\* What the bulk loaders leave alone: the state of load_ai_knowledge_base.
bulkOnly ==
    <<tree, catalogue_name, dataSources, jobs, frameworks, pc,
      data_source_id, found, all_urls, validated_urls, final_urls, job_id,
      elapsed, status, poll_message, ingestion_success, result, calls,
      runs, mainVars>>

\* The bulk loader returns value without having touched the signals.
BulkReturnEarly(value) ==
    /\ lpc' = "exit"
    /\ loader_result' = value
    /\ UNCHANGED <<connected, fixture_files, file_index>>

\* The bulk loader disconnects the handlers and enters its loop over files.
BulkDisconnectAndLoop(files) ==
    /\ connected' = Disconnected(connected)
    /\ fixture_files' = files
    /\ file_index' = 1
    /\ lpc' = "loop"
    /\ UNCHANGED loader_result

\* The loader up to its loop.  load_fixtures (lines 26-41) disconnects and
\* then lists its directory inside the try, which raises when the directory
\* is missing.  load_ato_tenant_fixtures (lines 148-209) returns False
\* before the disconnect when the tenant's files are missing or invalid.
\* _load_django_fixtures_from_dir (lines 457-472) lists first, and leaves
\* the signals alone when the listing raises or finds no fixture.
BulkEnter ==
    /\ lpc = "entry"
    /\ IF loader = "load_fixtures"
       THEN IF directory.exists
            THEN BulkDisconnectAndLoop(AllFixtureFiles(directory))
            ELSE /\ connected' = Disconnected(connected)
                 /\ lpc' = "finally"
                 /\ loader_result' = "raised"
                 /\ UNCHANGED <<fixture_files, file_index>>
       ELSE IF loader = "load_ato_tenant_fixtures"
       THEN IF TenantPrecheck(directory) = "go"
            THEN BulkDisconnectAndLoop(TenantFixtureFiles(directory))
            ELSE BulkReturnEarly("False")
       ELSE IF directory.exists /\ DjangoFixtures(directory) # <<>>
            THEN BulkDisconnectAndLoop(DjangoFixtures(directory))
            ELSE BulkReturnEarly("None")
    /\ UNCHANGED <<loader, directory, loaded_files, failed_files>>
    /\ UNCHANGED bulkOnly

\* The same, had load_ato_tenant_fixtures left its loop at the first
\* failure.
BulkLoadDataStoppingAtFailure ==
    /\ lpc = "loop"
    /\ file_index <= Len(fixture_files)
    /\ \E ok \in BOOLEAN :
          IF loader = "load_ato_tenant_fixtures"
          THEN IF ok
               THEN /\ file_index' = file_index + 1
                    /\ loaded_files' =
                          Append(loaded_files, fixture_files[file_index])
                    /\ UNCHANGED <<failed_files, lpc, loader_result>>
               ELSE /\ failed_files' =
                          Append(failed_files, fixture_files[file_index])
                    /\ lpc' = "finally"
                    /\ loader_result' = "False"
                    /\ UNCHANGED <<file_index, loaded_files>>
          ELSE /\ IF ok
                  THEN /\ file_index' = file_index + 1
                       /\ UNCHANGED <<lpc, loader_result>>
                  ELSE /\ lpc' = "finally"
                       /\ loader_result' = "raised"
                       /\ UNCHANGED file_index
               /\ UNCHANGED <<loaded_files, failed_files>>
    /\ UNCHANGED <<loader, directory, fixture_files, connected>>
    /\ UNCHANGED bulkOnly

\* One call of loaddata in the loop (loadAllFixtures.py 46-49,
\* loadTenant.py 214-248, loadAIKB.py 474-476): it returns or raises.
\* load_ato_tenant_fixtures catches the raise and goes on with the next
\* file; in the other two the raise leaves the loop for the finally block.
BulkLoadData ==
    /\ lpc = "loop"
    /\ file_index <= Len(fixture_files)
    /\ \E ok \in BOOLEAN :
          IF loader = "load_ato_tenant_fixtures"
          THEN /\ file_index' = file_index + 1
               /\ IF ok
                  THEN /\ loaded_files' =
                             Append(loaded_files, fixture_files[file_index])
                       /\ UNCHANGED failed_files
                  ELSE /\ failed_files' =
                             Append(failed_files, fixture_files[file_index])
                       /\ UNCHANGED loaded_files
               /\ UNCHANGED <<lpc, loader_result>>
          ELSE /\ IF ok
                  THEN /\ file_index' = file_index + 1
                       /\ UNCHANGED <<lpc, loader_result>>
                  ELSE /\ lpc' = "finally"
                       /\ loader_result' = "raised"
                       /\ UNCHANGED file_index
               /\ UNCHANGED <<loaded_files, failed_files>>
    /\ UNCHANGED <<loader, directory, fixture_files, connected>>
    /\ UNCHANGED bulkOnly

\* The loop is over (loadAllFixtures.py 46-51, loadTenant.py 250-309,
\* loadAIKB.py 474-478): the value to return is fixed and the finally block
\* is entered.
BulkLoopEnd ==
    /\ lpc = "loop"
    /\ file_index > Len(fixture_files)
    /\ lpc' = "finally"
    /\ loader_result' =
          IF loader # "load_ato_tenant_fixtures" THEN "None"
          ELSE IF failed_files # <<>> THEN "False"
          ELSE IF loaded_files # <<>> THEN "True"
          ELSE "False"
    /\ UNCHANGED <<loader, directory, fixture_files, file_index,
                   loaded_files, failed_files, connected>>
    /\ UNCHANGED bulkOnly

\* The finally block (loadAllFixtures.py 51-55, loadTenant.py 314-319,
\* loadAIKB.py 478-481), after which the loader returns or the raise goes
\* on; _load_django_fixtures_from_dir catches it and returns None (lines
\* 485-486).
BulkFinally ==
    /\ lpc = "finally"
    /\ connected' = Reconnected(connected)
    /\ lpc' = "exit"
    /\ loader_result' =
          IF loader = "_load_django_fixtures_from_dir"
             /\ loader_result = "raised"
          THEN "None"
          ELSE loader_result
    /\ UNCHANGED <<loader, directory, fixture_files, file_index,
                   loaded_files, failed_files>>
    /\ UNCHANGED bulkOnly

BulkLoaders ==
    {"load_fixtures", "load_ato_tenant_fixtures",
     "_load_django_fixtures_from_dir"}

\* The files the explored directories are made of: three fixtures, one of
\* them on the skip list and one with the django_ prefix, a file that is
\* not JSON inside, and a file without the .json suffix.
BulkFileKinds ==
    (<<"a", "_", "u", "s", "e", "r", "s", ".", "j", "s", "o", "n">> :> "fixture")
    @@ (<<"c", "o", "l", "o", "r", "s", ".", "j", "s", "o", "n">> :> "fixture")
    @@ (DjangoA :> "fixture")
    @@ (<<"b", "r", "o", "k", "e", "n", ".", "j", "s", "o", "n">> :> "malformed")
    @@ (<<"n", "o", "t", "e", "s", ".", "t", "x", "t">> :> "malformed")

BulkDirs ==
    {NoDir} \cup
    {[exists |-> TRUE, files |-> [f \in names |-> OtherFile(BulkFileKinds[f])]] :
        names \in SUBSET DOMAIN BulkFileKinds}

\* One bulk loader is called on one directory; no load_catalogue runs.
InitLoaders ==
    /\ tree = (BASE :> NoDir) @@ (NIST :> NoDir)
    /\ catalogue_name = <<>>
    /\ argv = <<>>
    /\ dataSources = <<>>
    /\ jobs = <<>>
    /\ frameworks = {}
    /\ runs = 0
    /\ pc = "none"
    /\ data_source_id = 0
    /\ found = FALSE
    /\ all_urls = <<>>
    /\ validated_urls = <<>>
    /\ final_urls = <<>>
    /\ job_id = 0
    /\ elapsed = 0
    /\ status = "none"
    /\ poll_message = "none"
    /\ ingestion_success = "none"
    /\ result = "none"
    /\ calls = <<>>
    /\ success = "none"
    /\ attempted = <<>>
    /\ outcomes = <<>>
    /\ exit_code = 0
    /\ connected = Handlers
    /\ loader \in BulkLoaders
    /\ directory \in BulkDirs
    /\ lpc = "entry"
    /\ fixture_files = <<>>
    /\ file_index = 0
    /\ loaded_files = <<>>
    /\ failed_files = <<>>
    /\ loader_result = "none"

NextLoaders ==
    \/ BulkEnter
    \/ BulkLoadData
    \/ BulkLoopEnd
    \/ BulkFinally

SpecLoaders == InitLoaders /\ [][NextLoaders]_vars

\* ------------------------------------------------------------------------
\* Tenant directories for load_ato_tenant_fixtures
\* ------------------------------------------------------------------------

MaxRecords == 2

AUsers == <<"a", "_", "u", "s", "e", "r", "s", ".", "j", "s", "o", "n">>
BOrgs == <<"b", "_", "o", "r", "g", "s", ".", "j", "s", "o", "n">>
CApps == <<"c", "_", "a", "p", "p", "s", ".", "j", "s", "o", "n">>
DEmpty == <<"d", "_", "e", "m", "p", "t", "y", ".", "j", "s", "o", "n">>
EWarn == <<"e", "_", "w", "a", "r", "n", ".", "j", "s", "o", "n">>
Broken == <<"b", "r", "o", "k", "e", "n", ".", "j", "s", "o", "n">>

\* The fields of the explored records: a critical one, two plain ones and
\* one whose empty string is not counted.
FieldPool == {"name", "phone", "city", "description"}

ItemPool ==
    {Item(fields) : fields \in [FieldPool -> {<<>>, <<"x">>}]}
    \cup {NoFieldsItem}

\* The lists of at most MaxRecords items.
DataPool == UNION {[1..n -> ItemPool] : n \in 0..MaxRecords}

AllEmpty == Item([f \in FieldPool |-> <<>>])

\* The files that directories of several files are made of: three
\* populated fixtures, a fixture with one empty critical field, a fixture
\* with six counted empty fields, a file that is not JSON and a file
\* without the .json suffix.
TenantFiles ==
    (AUsers :> OtherFile("fixture"))
    @@ (BOrgs :> FixtureFile(<<Item(("name" :> <<"x">>)
                                    @@ ("phone" :> <<>>))>>))
    @@ (CApps :> OtherFile("fixture"))
    @@ (DEmpty :> FixtureFile(<<Item(("name" :> <<>>)
                                     @@ ("phone" :> <<"x">>))>>))
    @@ (EWarn :> FixtureFile(<<AllEmpty, AllEmpty>>))
    @@ (Broken :> OtherFile("malformed"))
    @@ (NotesTxt :> OtherFile("fixture"))

TenantDirs ==
    {NoDir}
    \cup {[exists |-> TRUE, files |-> (AUsers :> FixtureFile(data))] :
             data \in DataPool}
    \cup {[exists |-> TRUE, files |-> [f \in names |-> TenantFiles[f]]] :
             names \in SUBSET DOMAIN TenantFiles}

\* load_ato_tenant_fixtures is called for one tenant directory.
InitTenant ==
    /\ tree = (BASE :> NoDir) @@ (NIST :> NoDir)
    /\ catalogue_name = <<>>
    /\ dataSources = <<>>
    /\ jobs = <<>>
    /\ frameworks = {}
    /\ runs = 0
    /\ pc = "none"
    /\ data_source_id = 0
    /\ found = FALSE
    /\ all_urls = <<>>
    /\ validated_urls = <<>>
    /\ final_urls = <<>>
    /\ job_id = 0
    /\ elapsed = 0
    /\ status = "none"
    /\ poll_message = "none"
    /\ ingestion_success = "none"
    /\ result = "none"
    /\ calls = <<>>
    /\ argv = <<>>
    /\ success = "none"
    /\ attempted = <<>>
    /\ outcomes = <<>>
    /\ exit_code = 0
    /\ connected = Handlers
    /\ loader = "load_ato_tenant_fixtures"
    /\ directory \in TenantDirs
    /\ lpc = "entry"
    /\ fixture_files = <<>>
    /\ file_index = 0
    /\ loaded_files = <<>>
    /\ failed_files = <<>>
    /\ loader_result = "none"

SpecTenant == InitTenant /\ [][NextLoaders]_vars

\* ------------------------------------------------------------------------
\* Properties
\* ------------------------------------------------------------------------

Range(seq) == {seq[i] : i \in 1..Len(seq)}

CallsOf(op) == {i \in 1..Len(calls) : calls[i].op = op}

MutationOps ==
    {"create_data_source", "update_data_source", "start_ingestion_job"}

\* The URL files of the directories, validated and deduplicated, total more
\* than 3000 characters.
OverBudgetInput ==
    LET validated == validate_and_clean_urls(AllUrls(tree, catalogue_name))
    IN  /\ ~validated.raised
        /\ total_chars(deduplicate_urls(validated.valid_urls)) > 3000

\* C1: when the validated, deduplicated URL list totals more than 3000
\* characters, the run never makes a remote mutation (create_data_source,
\* update_data_source, start_ingestion_job) and ends in failure, whether
\* the data source exists, does not exist, or the listing fails.
C1_NoMutationOverBudget ==
    OverBudgetInput =>
        /\ \A i \in 1..Len(calls) : calls[i].op \notin MutationOps
        /\ result # "True"
        /\ pc = "done" => result \in {"False", "raised"}

\* An over-budget run that found the data source and returned False.
C1_Witness ==
    /\ OverBudgetInput
    /\ pc = "done"
    /\ result = "False"
    /\ found
    /\ CallsOf("list_data_sources") # {}

\* An over-budget run that went to create the data source and raised.
C1_WitnessCreate ==
    /\ OverBudgetInput
    /\ pc = "done"
    /\ result = "raised"
    /\ ~found
    /\ CallsOf("list_data_sources") # {}

\* The step is an iteration of the poll loop that queried the job status.
IsQueryStep ==
    /\ pc = "poll"
    /\ Len(calls') = Len(calls) + 1
    /\ calls'[Len(calls')].op = "get_ingestion_job"

\* C2: the poll loop returns success only in a step whose queried status
\* is COMPLETE, returns explicit failure only in a step whose queried status
\* is FAILED, otherwise returns only once the timeout has elapsed; a query
\* error or any other status does not end the loop.
C2_PollExitsOnlyOnTerminalStatus ==
    [][ pc = "poll" =>
          /\ (pc' = "returned" /\ ingestion_success' = "True")
                => (IsQueryStep /\ status' = "COMPLETE")
          /\ (pc' = "returned" /\ poll_message' = "failed")
                => (IsQueryStep /\ status' = "FAILED"
                    /\ ingestion_success' = "False")
          /\ pc' = "returned"
                => \/ IsQueryStep /\ status' \in {"COMPLETE", "FAILED"}
                   \/ /\ ~IsQueryStep
                      /\ elapsed >= timeout_minutes * 60
                      /\ poll_message' = "timeout"
          /\ (IsQueryStep /\ status' \notin {"COMPLETE", "FAILED"})
                => (pc' = "poll" /\ ingestion_success' = "none")
      ]_vars

\* The loop returned success after at least one query that did not end it.
C2_Witness ==
    /\ pc = "returned"
    /\ poll_message = "completed"
    /\ status = "COMPLETE"
    /\ Cardinality(CallsOf("get_ingestion_job")) >= 3

\* C3: the poll loop always terminates; once the elapsed time has reached
\* timeout_minutes*60 it exits with failure, and no status query is made
\* from then on.
C3_PollTerminates ==
    /\ (pc = "poll") ~> (pc = "returned")
    /\ [][IsQueryStep => elapsed < timeout_minutes * 60]_vars
    /\ [][(pc = "poll" /\ elapsed >= timeout_minutes * 60)
             => /\ pc' = "returned"
                /\ ingestion_success' = "False"
                /\ poll_message' = "timeout"]_vars

\* The loop gave up after 40 queries, none of which was terminal.
C3_Witness ==
    /\ pc = "returned"
    /\ poll_message = "timeout"
    /\ ingestion_success = "False"
    /\ Cardinality(CallsOf("get_ingestion_job")) = 40

FileUrls(dir) ==
    IF dir.exists /\ UrlsA \in DOMAIN dir.files
    THEN dir.files[UrlsA].urls ELSE <<>>

\* Base URLs first when the base directory exists and the catalogue is not
\* 'base', then the catalogue's own URLs.
Concatenation ==
    IF tree[BASE].exists /\ catalogue_name # BASE
    THEN FileUrls(tree[BASE]) \o FileUrls(tree[catalogue_name])
    ELSE FileUrls(tree[catalogue_name])

\* Where the trimmed url u first occurs in the trimmed concatenation
\* (0: nowhere).
FirstOccurrence(trimmed, u) ==
    IF \E k \in 1..Len(trimmed) : trimmed[k] = u
    THEN CHOOSE k \in 1..Len(trimmed) :
             /\ trimmed[k] = u
             /\ \A m \in 1..(k - 1) : trimmed[m] # u
    ELSE 0

\* The trimmed url u is one that validation keeps: it is not empty, urlparse
\* takes it, and it has a scheme and a host.
IsValidUrl(u) ==
    /\ u # <<>>
    /\ ~urlparse(u).raises
    /\ urlparse(u).scheme # <<>>
    /\ urlparse(u).netloc # <<>>

\* urls has no duplicate, holds every URL of the concatenation that
\* validation keeps and nothing else, in the order of first occurrence.
IsReconciliation(urls) ==
    LET trimmed == [k \in 1..Len(Concatenation) |-> Strip(Concatenation[k])]
        first   == [i \in 1..Len(urls) |-> FirstOccurrence(trimmed, urls[i])]
    IN  /\ \A i, j \in 1..Len(urls) : i # j => urls[i] # urls[j]
        /\ \A i \in 1..Len(urls) : first[i] # 0
        /\ \A i, j \in 1..Len(urls) : i < j => first[i] < first[j]
        /\ \A k \in 1..Len(trimmed) :
              IsValidUrl(trimmed[k]) => trimmed[k] \in Range(urls)
        /\ \A i \in 1..Len(urls) : IsValidUrl(urls[i])

\* C5: the reconciled list that load_catalogue submits (to update or to
\* create the data source) has no duplicate and keeps each distinct valid
\* URL once, at the position of its first occurrence in the concatenation
\* of base URLs (when the base directory exists and the catalogue is not
\* 'base') and catalogue URLs.
C5_DedupFirstSeenOrder ==
    /\ pc = "update" => IsReconciliation(final_urls)
    /\ \A i \in CallsOf("create_data_source") :
          IsReconciliation(calls[i].req.seedUrls)

\* Base URLs and the catalogue's URLs overlap: three valid URLs, two
\* distinct ones, the first of them from the base file.
C5_Witness ==
    /\ pc = "update"
    /\ catalogue_name # BASE
    /\ tree[BASE].exists
    /\ Len(FileUrls(tree[BASE])) = 1
    /\ Len(validated_urls) = 3
    /\ Len(final_urls) = 2
    /\ Strip(FileUrls(tree[BASE])[1]) = final_urls[1]

\* The trimmed inputs that are non-empty and have a scheme and a host.
ExpectedValid(urls) ==
    SelectSeq([i \in 1..Len(urls) |-> Strip(urls[i])],
              LAMBDA u : /\ u # <<>>
                         /\ urlparse(u).scheme # <<>>
                         /\ urlparse(u).netloc # <<>>)

\* C6: validation returns, in input order, exactly the trimmed inputs that
\* are non-empty and have a scheme and a host, and no URL string makes it
\* raise (load_catalogue raises only when create_data_source is rejected);
\* the example list validates and deduplicates to the one URL.
C6_ValidationNeverRaises ==
    /\ result = "raised"
          => \E i \in CallsOf("create_data_source") : ~calls[i].ok
    /\ pc = "update" => validated_urls = ExpectedValid(all_urls)
    /\ (pc = "update" /\ all_urls = ExampleUrls) => final_urls = <<U_A>>

\* The remote data source of this run, when there is one.
Current == dataSources[data_source_id]

\* C7 as claimed: when the data source was found by name and the list is
\* within budget, the remote seed-URL list is exactly the reconciled list
\* by the time the ingestion job has started.
C7_SeedUrlsReplaced ==
    (pc = "poll" /\ found) => Current.seedUrls = final_urls

\* C7 as amended: the same, provided the service accepted an
\* update_data_source call of the run.
C7_SeedUrlsReplacedWhenAccepted ==
    ( /\ pc = "poll"
      /\ found
      /\ \E i \in CallsOf("update_data_source") : calls[i].ok )
        => Current.seedUrls = final_urls

\* The job started after an accepted update of a found data source that
\* held a URL the new list does not have.
C7_Witness ==
    /\ pc = "poll"
    /\ found
    /\ \E i \in CallsOf("update_data_source") : calls[i].ok
    /\ U_old \notin Range(final_urls)
    /\ U_old \notin Range(Current.seedUrls)
    /\ Len(final_urls) >= 2

\* The remote data sources named for the catalogue.
NamedForCatalogue ==
    {i \in 1..Len(dataSources) :
        dataSources[i].name = NamePrefix \o catalogue_name \o NameSuffix}

\* C8: after any sequence of runs the knowledge base holds at most one
\* data source named for the catalogue.
C8_AtMostOneDataSource == Cardinality(NamedForCatalogue) <= 1

\* C9: when the listing succeeded, the run uses the data source that
\* carries the catalogue's creation name whenever there is one, and creates
\* none; it creates one only when no data source carries that name.
C9_LookupFindsCreated ==
    ( /\ pc \notin {"idle", "resolve"}
      /\ CallsOf("list_data_sources") # {}
      /\ calls[1].ok )
        => IF found
           THEN /\ Current.name = CreateName(catalogue_name)
                /\ CallsOf("create_data_source") = {}
           ELSE \A i \in 1..Len(dataSources) :
                   dataSources[i].name = CreateName(catalogue_name)
                      => i = data_source_id

\* The second run found the data source that the first run created.
C9_Witness ==
    /\ runs = 2
    /\ found
    /\ calls[1].ok
    /\ Len(dataSources) = 1
    /\ data_source_id = 1
    /\ CallsOf("create_data_source") = {}

\* C10: a second update_data_source call follows only a rejected first
\* one and differs from it (the vectorIngestionConfiguration sub-structure
\* removed); there are at most two update calls in a run.
C10_RetryDiffers ==
    /\ Cardinality(CallsOf("update_data_source")) <= 2
    /\ \A i, j \in CallsOf("update_data_source") :
          i < j => /\ ~calls[i].ok
                   /\ calls[j].req # calls[i].req

\* The run has entered _update_data_source_urls and no update_data_source
\* call of it was accepted: get_data_source raised, the data source is not
\* a web crawler, or every update was rejected.
UpdateFailedInRun ==
    /\ CallsOf("get_data_source") # {}
    /\ \A i \in CallsOf("update_data_source") : ~calls[i].ok

\* C11: a failure inside _update_data_source_urls (get_data_source error,
\* data source not of type WEB, update rejected once or twice) never leaves
\* load_catalogue: the run is at the call of start_ingestion_job or has
\* made it, and load_catalogue raises only if that call failed.
C11_UpdateFailureNotFatal ==
    UpdateFailedInRun =>
        /\ pc = "start" \/ CallsOf("start_ingestion_job") # {}
        /\ result = "raised" =>
              \E i \in CallsOf("start_ingestion_job") : ~calls[i].ok

\* Both update_data_source calls of a run were rejected and the ingestion
\* job was started all the same.
C11_Witness ==
    /\ Cardinality(CallsOf("update_data_source")) = 2
    /\ UpdateFailedInRun
    /\ \E i \in CallsOf("start_ingestion_job") : calls[i].ok

\* start_ingestion_job failed in this run.
StartFailed == \E i \in CallsOf("start_ingestion_job") : ~calls[i].ok

\* The data source was looked up, not found and not created:
\* create_data_source was rejected, or _create_catalogue_data_source raised
\* before calling it.
ResolveFailed ==
    /\ CallsOf("list_data_sources") # {}
    /\ ~found
    /\ data_source_id = 0

\* C12: when start_ingestion_job fails, or the data source is neither found
\* nor created, load_catalogue raises at once: the run makes no status
\* query, no loaddata and no get_or_create, no further catalogue is loaded,
\* and the process exits with status 1 with the catalogue recorded as
\* raised.
C12_SetupFailurePropagates ==
    StartFailed \/ ResolveFailed =>
        /\ pc \in {"done", "exited"}
        /\ result = "raised"
        /\ CallsOf("get_ingestion_job") = {}
        /\ CallsOf("loaddata") = {}
        /\ CallsOf("get_or_create") = {}
        /\ pc = "exited" =>
              /\ exit_code = 1
              /\ outcomes[Len(outcomes)] = "raised"
              /\ Len(outcomes) = Len(attempted)

\* The process has exited after a failed start_ingestion_job for a data
\* source that was found or created.
C12_Witness ==
    /\ pc = "exited"
    /\ StartFailed
    /\ data_source_id # 0
    /\ exit_code = 1

\* The command line asks for every catalogue.
AllMode == Accepted /\ CatalogueArg = ALL

\* C13: in 'all' mode no failure of a catalogue aborts the batch: when the
\* process exits, load_catalogue has been called for every discoverable
\* catalogue exactly once, in sorted order, whatever the earlier ones did
\* (returned False or raised).
C13_BatchAttemptsEveryCatalogue ==
    AllMode /\ pc = "exited" => attempted = available_catalogues

\* C14: for a command line that names something to load, the exit status
\* is non-zero exactly when some attempted catalogue failed (returned False
\* or raised), and zero when every attempted catalogue succeeded, also for
\* a batch over no catalogue at all.
C14_ExitCodeReflectsSuccess ==
    Accepted /\ pc = "exited" =>
        (exit_code # 0 <=>
            \E i \in 1..Len(outcomes) : outcomes[i] # "True")

\* The positions in calls of the bulk load and of the framework upsert.
FixtureCalls == CallsOf("loaddata") \cup CallsOf("get_or_create")

\* C15: loaddata and the ComplianceFramework get_or_create are invoked only
\* after the poll loop has returned True for the job of this run: a status
\* query of that job precedes them and gave COMPLETE, and a run that ends
\* with anything but True (FAILED, timeout, budget overrun, no URLs, no
\* directory, a raise) has invoked neither.
C15_FixturesOnlyAfterSuccess ==
    /\ FixtureCalls # {} =>
          /\ ingestion_success = "True"
          /\ status = "COMPLETE"
          /\ poll_message = "completed"
          /\ \E j \in CallsOf("get_ingestion_job") :
                /\ calls[j].req.ingestionJobId = job_id
                /\ \A i \in FixtureCalls : j < i
    /\ pc = "done" /\ result # "True" => FixtureCalls = {}

\* A run that saw COMPLETE, loaded fixtures of both directories and asked
\* for the framework record.
C15_Witness ==
    /\ pc = "done"
    /\ result = "True"
    /\ Cardinality(CallsOf("loaddata")) = 2
    /\ CallsOf("get_or_create") # {}

\* The URL files of dir that json.load rejects.
MalformedUrlFiles(dir) ==
    {f \in DOMAIN dir.files :
        /\ EndsWith(f, JsonSuffix)
        /\ f # CatalogueInfoName
        /\ dir.files[f].kind = "malformed"}

\* A directory the run reads holds a malformed URL file.
MalformedInput ==
    \/ tree[catalogue_name].exists
       /\ MalformedUrlFiles(tree[catalogue_name]) # {}
    \/ UsesBase(tree, catalogue_name)
       /\ tree[catalogue_name].exists
       /\ MalformedUrlFiles(tree[BASE]) # {}

\* C16: a malformed URL file in the base or catalogue directory is a hard
\* input error: the run ends in failure and submits nothing to the remote
\* service (no create_data_source, update_data_source or
\* start_ingestion_job).
C16_MalformedFileAborts ==
    MalformedInput =>
        /\ \A i \in 1..Len(calls) : calls[i].op \notin MutationOps
        /\ pc = "done" => result = "False"

\* C17: in each bulk loader (load_fixtures, load_ato_tenant_fixtures,
\* _load_django_fixtures_from_dir) the three audit signal handlers are
\* disconnected only while the loader is in its loop or on its way to the
\* finally block, and all three are connected again when the loader is
\* left, by return (also the return False for failed files) or by a raise
\* of loaddata or of the directory listing.
C17_HandlersReconnected ==
    /\ lpc = "exit" => Handlers \subseteq connected
    /\ ~(Handlers \subseteq connected) => lpc \in {"loop", "finally"}

\* load_fixtures has been left by the raise of a loaddata call that
\* followed a successful one, with the handlers connected.
C17_Witness ==
    /\ loader = "load_fixtures"
    /\ lpc = "exit"
    /\ loader_result = "raised"
    /\ file_index = 2
    /\ connected = Handlers

\* The URLs written one after the other, without separators.
RECURSIVE Joined(_)
Joined(urls) ==
    IF urls = <<>> THEN <<>> ELSE Head(urls) \o Joined(Tail(urls))

\* The reconciled list of the directories, when validation does not raise.
ReconciledInput ==
    deduplicate_urls(
        validate_and_clean_urls(AllUrls(tree, catalogue_name)).valid_urls)

\* C18: the budget is the length of the reconciled URLs written without
\* separators, and 3000 is allowed.  On the update path the run goes on to
\* the update exactly when that length is at most 3000 and returns False
\* when it is more.  On the creation path create_data_source is called
\* with the same reconciled list, of at most 3000 characters, and the
\* creation raises without a call only over a list of more than 3000
\* characters (or when validation itself raised).
C18_BudgetInclusive ==
    /\ pc = "update" => Len(Joined(final_urls)) <= 3000
    /\ pc = "done" /\ result = "False" /\ all_urls # <<>>
          => Len(Joined(final_urls)) > 3000
    /\ \A i \in CallsOf("create_data_source") :
          /\ Len(Joined(calls[i].req.seedUrls)) <= 3000
          /\ pc = "update" => calls[i].req.seedUrls = final_urls
    /\ ResolveFailed /\ CallsOf("create_data_source") = {}
          => \/ validate_and_clean_urls(
                    AllUrls(tree, catalogue_name)).raised
             \/ Len(Joined(ReconciledInput)) > 3000

\* A list of exactly 3000 characters was accepted by the creation and then
\* by the budget test of load_catalogue.
C18_Witness ==
    /\ pc = "update"
    /\ Len(Joined(final_urls)) = 3000
    /\ \E i \in CallsOf("create_data_source") : calls[i].ok

\* The name _update_compliance_framework asks for, and the records of it.
InfoName ==
    FrameworkRecord(tree[catalogue_name].files[CatalogueInfoName].info,
                    catalogue_name).name

NamedFrameworks == {r \in frameworks : r.name = InfoName}

\* C19 as stated: after every successful run for a catalogue with a
\* catalogue_info document exactly one ComplianceFramework record of that
\* name exists.
C19_ExactlyOneAfterSuccessfulRun ==
    pc = "done" /\ result = "True" => Cardinality(NamedFrameworks) = 1

\* C19, amended: the upsert is create-if-absent keyed by name.  No step
\* changes or removes a record (a record that existed keeps its
\* description and version), the runs never make a second record of the
\* name, and a successful run whose get_or_create returned leaves exactly
\* one: the one that was there, or the one made from the document.
C19_UpsertKeyedByName ==
    [][/\ \A r \in frameworks : r \in frameworks'
       /\ Cardinality(NamedFrameworks') <= 1
       /\ (\E i \in 1..Len(calls') :
              calls'[i].op = "get_or_create" /\ calls'[i].ok)
             => /\ Cardinality(NamedFrameworks') = 1
                /\ NamedFrameworks # {} => NamedFrameworks' = NamedFrameworks
      ]_vars

\* A second successful run whose get_or_create returned, with the record
\* that was in the table before the first run still the only one.
C19_Witness ==
    /\ runs = 2
    /\ pc = "done"
    /\ result = "True"
    /\ \E i \in CallsOf("get_or_create") : calls[i].ok
    /\ frameworks = {OldFramework}

\* C20: within one run the remote operations come in a fixed order and at
\* most one ingestion job is started.  get_data_source and
\* update_data_source come after the lookup and name the resolved data
\* source; start_ingestion_job comes after the update was attempted
\* (get_data_source was called) and after every update_data_source, each
\* of which carries the reconciled list; every get_ingestion_job comes
\* after the successful start and names that job; loaddata and
\* get_or_create come after every status query, the last of which gave
\* COMPLETE.
C20_OperationsInOrder ==
    /\ Cardinality(CallsOf("start_ingestion_job")) <= 1
    /\ \A i \in CallsOf("get_data_source") \cup CallsOf("update_data_source") :
          /\ \E l \in CallsOf("list_data_sources") : l < i
          /\ calls[i].req.dataSourceId = data_source_id
          /\ data_source_id \in 1..Len(dataSources)
    /\ \A u \in CallsOf("update_data_source") :
          calls[u].req.seedUrls = final_urls
    /\ \A k \in CallsOf("start_ingestion_job") :
          /\ \E g \in CallsOf("get_data_source") : g < k
          /\ \A u \in CallsOf("update_data_source") : u < k
          /\ calls[k].req.dataSourceId = data_source_id
    /\ \A q \in CallsOf("get_ingestion_job") :
          /\ \E k \in CallsOf("start_ingestion_job") : k < q /\ calls[k].ok
          /\ job_id \in 1..Len(jobs)
          /\ calls[q].req.ingestionJobId = job_id
          /\ jobs[job_id] = data_source_id
    /\ \A f \in FixtureCalls :
          /\ status = "COMPLETE"
          /\ CallsOf("get_ingestion_job") # {}
          /\ \A q \in CallsOf("get_ingestion_job") : q < f

\* A run that created the data source, had its update rejected and retried,
\* started the job, queried it more than once and loaded the fixtures.
C20_Witness ==
    /\ pc = "done"
    /\ result = "True"
    /\ \E i \in CallsOf("create_data_source") : calls[i].ok
    /\ Cardinality(CallsOf("update_data_source")) = 2
    /\ Cardinality(CallsOf("get_ingestion_job")) >= 2
    /\ CallsOf("loaddata") # {}

\* ------------------------------------------------------------------------
\* C21
\* ------------------------------------------------------------------------

\* The .json files of dir, other than catalogue_info.json, that hold a
\* 'urls' list.
UrlFileNames(dir) ==
    {f \in DOMAIN dir.files :
        /\ EndsWith(f, JsonSuffix)
        /\ f # CatalogueInfoName
        /\ dir.files[f].kind = "urls"}

\* The URLs of dir, each as <<file, index>>.
UrlEntries(dir) ==
    UNION {{<<f, k>> : k \in 1..Len(dir.files[f].urls)} :
              f \in UrlFileNames(dir)}

\* Those of the files named before f.
UrlsBefore(dir, f) == {e \in UrlEntries(dir) : StrLess(e[1], f)}

\* ReconcileUrls has run: the data source was resolved and the run has
\* gone past the loading of the URLs.
UrlsLoaded ==
    data_source_id # 0 /\ pc \notin {"idle", "resolve", "load"}

\* C21: for a directory, the loaded all_urls is the concatenation of the
\* 'urls' lists of its .json files in ascending file-name order, each list
\* in its own order; catalogue_info.json, files without a 'urls' list and
\* files not named .json contribute nothing.
C21_UrlsInFileNameOrder ==
    UrlsLoaded =>
        LET dir   == tree[catalogue_name]
            names == UrlFileNames(dir)
        IN  /\ Len(all_urls) = Cardinality(UrlEntries(dir))
            /\ \A f \in names :
                  \A k \in 1..Len(dir.files[f].urls) :
                     all_urls[Cardinality(UrlsBefore(dir, f)) + k]
                        = dir.files[f].urls[k]

\* The three URL files, catalogue_info.json with a 'urls' list, a Django
\* fixture and the .txt file are all there, and the URLs were loaded.
C21_Witness ==
    /\ UrlsLoaded
    /\ DOMAIN tree[catalogue_name].files =
          {UrlsA, UrlsB, ZJson, CatalogueInfoName, DjangoA, NotesTxt}
    /\ tree[catalogue_name].files[CatalogueInfoName].kind = "urls"
    /\ all_urls = <<U_old, U_A, U_B, U_C, U_A>>

\* ------------------------------------------------------------------------
\* C22
\* ------------------------------------------------------------------------

\* The tenant directory holds the one file a_users.json, a fixture that is
\* a non-empty list, and get_ato_fixture_files has validated it.
OneFixtureValidated ==
    /\ lpc # "entry"
    /\ directory.exists
    /\ DOMAIN directory.files = {AUsers}
    /\ "data" \in DOMAIN directory.files[AUsers]
    /\ directory.files[AUsers].data # <<>>

\* Some record of data has "" in a critical field.
CriticalFieldEmpty(data) ==
    \E i \in 1..Len(data) :
       /\ data[i].hasFields
       /\ \E f \in CriticalFields \cap DOMAIN data[i].fields :
             data[i].fields[f] = <<>>

\* C22: a fixture that is a non-empty list of records is rejected by
\* validate_ato_fixture_file exactly when some record has an empty string
\* in a critical field, however many other fields are empty.
C22_FailsIffCriticalEmpty ==
    OneFixtureValidated =>
        (fixture_files = <<>>
            <=> CriticalFieldEmpty(directory.files[AUsers].data))

\* ------------------------------------------------------------------------
\* C23
\* ------------------------------------------------------------------------

\* Some .json file of the tenant directory does not pass
\* validate_ato_fixture_file.
InvalidFilePresent ==
    /\ directory.exists
    /\ \E f \in DOMAIN directory.files :
          EndsWith(f, JsonSuffix) /\ ~ValidFixture(directory, f)

\* C23: when some .json file of the tenant directory is invalid, no step of
\* load_ato_tenant_fixtures disconnects a signal or calls loaddata (every
\* call puts its file in loaded_files or failed_files), not even for the
\* files that are valid, and the function returns False.
C23_InvalidFileGatesLoading ==
    [][InvalidFilePresent =>
          /\ connected' = Handlers
          /\ loaded_files' = <<>>
          /\ failed_files' = <<>>
          /\ lpc' = "exit"
          /\ loader_result' = "False"]_vars

\* The function has returned False for a directory with two valid
\* fixtures, one fixture with an empty critical field and one file that is
\* not JSON.
C23_Witness ==
    /\ lpc = "exit"
    /\ loader_result = "False"
    /\ {AUsers, CApps, DEmpty, Broken} \subseteq DOMAIN directory.files
    /\ ValidFixture(directory, AUsers)
    /\ ValidFixture(directory, CApps)
    /\ InvalidFilePresent
    /\ connected = Handlers
    /\ loaded_files = <<>>
    /\ failed_files = <<>>

\* ------------------------------------------------------------------------
\* C24
\* ------------------------------------------------------------------------

\* The .json files of the tenant directory that pass validation.
ValidTenantFiles ==
    {f \in DOMAIN directory.files :
        EndsWith(f, JsonSuffix) /\ ValidFixture(directory, f)}

\* The files loaddata was called on so far.
AttemptedFiles ==
    {loaded_files[k] : k \in 1..Len(loaded_files)}
    \cup {failed_files[k] : k \in 1..Len(failed_files)}

\* load_ato_tenant_fixtures has got past its checks and loads.
TenantLoading ==
    /\ loader = "load_ato_tenant_fixtures"
    /\ lpc # "entry"
    /\ ~InvalidFilePresent
    /\ ValidTenantFiles # {}

\* C24: load_ato_tenant_fixtures calls loaddata on the valid files in
\* ascending file-name order (a file is attempted only after every file
\* named before it), goes on after a failure until every file has been
\* attempted, puts each file in exactly one of loaded_files and
\* failed_files, and returns True exactly when some file was loaded and
\* none failed.
C24_EveryFileAttemptedInOrder ==
    TenantLoading =>
        /\ AttemptedFiles \subseteq ValidTenantFiles
        /\ \A f \in AttemptedFiles :
              \A g \in ValidTenantFiles \ AttemptedFiles : StrLess(f, g)
        /\ Len(loaded_files) + Len(failed_files)
              = Cardinality(AttemptedFiles)
        /\ lpc \in {"finally", "exit"} =>
              /\ AttemptedFiles = ValidTenantFiles
              /\ loader_result \in {"True", "False"}
              /\ loader_result = "True"
                    <=> (loaded_files # <<>> /\ failed_files = <<>>)

\* The function has returned False after loading the first and the third
\* of three files, the second having failed.
C24_Witness ==
    /\ TenantLoading
    /\ lpc = "exit"
    /\ loader_result = "False"
    /\ ValidTenantFiles = {AUsers, BOrgs, CApps}
    /\ loaded_files = <<AUsers, CApps>>
    /\ failed_files = <<BOrgs>>

\* ------------------------------------------------------------------------
\* C25
\* ------------------------------------------------------------------------

\* The catalogue directory exists and the directories of the run hold no
\* valid URL: no URL at all, or only URLs that validation drops.
NoValidUrlFound ==
    /\ tree[catalogue_name].exists
    /\ LET loaded == AllUrls(tree, catalogue_name)
       IN  \A k \in 1..Len(loaded) : ~IsValidUrl(Strip(loaded[k]))

\* The calls of the run that changed the knowledge base: the accepted
\* ones among create_data_source, update_data_source, start_ingestion_job.
MutationCalls ==
    {i \in CallsOf("create_data_source") \cup CallsOf("update_data_source")
            \cup CallsOf("start_ingestion_job") : calls[i].ok}

\* C25: when the catalogue directory exists and no valid URL is found,
\* load_catalogue creates no data source, updates none and starts no
\* ingestion job, and it does not return True.
C25_NoMutationWithoutValidUrl ==
    NoValidUrlFound =>
        /\ MutationCalls = {}
        /\ pc = "done" => result \in {"False", "raised"}

\* ------------------------------------------------------------------------
\* C26
\* ------------------------------------------------------------------------

\* The loaddata calls of the run on the files of directory dirName.
LoadDataOf(dirName) ==
    {i \in CallsOf("loaddata") : calls[i].req.dir = dirName}

\* The run is over and its poll loop had returned True.
DoneAfterIngestion == pc = "done" /\ ingestion_success = "True"

\* C26: once the poll loop has returned True, load_catalogue returns True
\* whatever loaddata and get_or_create did; the catalogue's fixtures are
\* attempted whatever happened to the base fixtures, and get_or_create is
\* called for a catalogue with a catalogue_info document whatever happened
\* to the fixtures.
C26_PostIngestionErrorsIgnored ==
    DoneAfterIngestion =>
        LET own == tree[catalogue_name]
        IN  /\ result = "True"
            /\ (UsesBase(tree, catalogue_name)
                   /\ DjangoFixtures(tree[BASE]) # <<>>)
                  => LoadDataOf(BASE) # {}
            /\ DjangoFixtures(own) # <<>>
                  => \E i \in LoadDataOf(catalogue_name) :
                        /\ calls[i].req.file = DjangoFixtures(own)[1]
                        /\ catalogue_name # BASE
                              => \A b \in LoadDataOf(BASE) : b < i
            /\ (CatalogueInfoName \in DOMAIN own.files
                   /\ own.files[CatalogueInfoName].kind = "info")
                  => \E g \in CallsOf("get_or_create") :
                        \A i \in CallsOf("loaddata") : i < g

\* load_catalogue has returned True although loaddata raised on a base
\* fixture and on a fixture of the catalogue and get_or_create raised.
C26_Witness ==
    /\ DoneAfterIngestion
    /\ result = "True"
    /\ \E b \in LoadDataOf(BASE) : ~calls[b].ok
    /\ catalogue_name # BASE
    /\ \E i \in LoadDataOf(catalogue_name) : ~calls[i].ok
    /\ \E g \in CallsOf("get_or_create") : ~calls[g].ok

====
